---- MODULE Spec2Model ----
(***************************************************************************)
(* Rule versioning of detection_rules/packaging.py: manage_versions,       *)
(* versions_locked and ChangelogMgmt.update_and_lock, over the three       *)
(* persisted ledgers version.lock.json, deprecated_rules.json and          *)
(* rules-changelog.json, the memoized load_versions() mapping and the      *)
(* Rule objects held in memory.                                            *)
(***************************************************************************)
EXTENDS Integers, Sequences, FiniteSets, TLC

\* ------------------------------------------------------------------ bounds
\* number of operations (calls and edits) in one run
MaxSteps == 3
\* version found in the entries of the version.lock.json a run starts with
InitVersion == 3

\* ------------------------------------------------------------- the corpus
RuleIds == {"a1", "b2"}
\* the order in which callers list the rules: that of load_rules, by rule name
RuleOrder == <<"b2", "a1">>
\* rule.name; the names sort the other way round than the ids
NameOf == [id \in RuleIds |-> IF id = "a1" THEN "Zeta rule" ELSE "Alpha rule"]
\* the meaning-bearing content a rule file can hold
Bodies == {"q1", "q2"}
\* rule.metadata['minimum_kibana_version']
MinKibana == "7.13.0"
\* CurrentSchema.STACK_VERSION, the last schema of all_schemas
STACK_VERSION == "7.13"
\* str(datetime.date.today())
Days == <<"2021-03-01", "2021-03-02">>

\* changelog messages; the first two are the defaults update_and_lock ignores
VERSION_LOCKED == "_version_locked_"
RULE_CREATED == "_rule_created_"
DEPRECATED == "_deprecated_"
ARBITRARY == "some arbitrary change"
Messages == {VERSION_LOCKED, RULE_CREATED, DEPRECATED, ARBITRARY}

\* save_path of update_and_lock
CHANGELOG_FILE == "rules-changelog.json"
OTHER_FILE == "preview-changelog.json"

\* ---------------------------------------------------------------- helpers
NoMap == [x \in {} |-> 0]

\* dict[k] = v
Put(m, k, v) == [x \in DOMAIN m \cup {k} |-> IF x = k THEN v ELSE m[x]]

\* mutant of Update: the mapping is replaced by the other
Update_Replace(m, other) == other

\* dict.update(other)
Update(m, other) ==
    [x \in DOMAIN m \cup DOMAIN other |-> IF x \in DOMAIN other THEN other[x] ELSE m[x]]

\* the rules of S as the list a caller passes
ListOf(S) == SelectSeq(RuleOrder, LAMBDA id : id \in S)

Range(s) == {s[i] : i \in 1..Len(s)}

\* ------------------------------------------------------------- Rule object
\* rule.get_hash(): a digest of the content, which leaves out
\* contents['version'] and the changelog
get_hash(id, rule) == <<"sha256", id, rule.name, rule.body>>

\* rule.get_version()
get_version(rule) == rule.version

\* rule.append_changelog_entry(message)
append_changelog_entry(rule, message) ==
    [rule EXCEPT !.has_changelog = TRUE,
                 !.changelog = IF rule.has_changelog THEN Append(@, message)
                               ELSE <<message>>]

\* ------------------------------------------------------------------ files
\* the rule names in sorting order: the key of sorted(..., key=rule_name)
NameRank(n) == IF n = "Alpha rule" THEN 1 ELSE 2

\* insertion of one item <<id, entry>> behind the items that do not sort
\* after it (sorted() is stable)
RECURSIVE InsertByName(_, _)
InsertByName(s, item) ==
    IF s = <<>> THEN <<item>>
    ELSE IF NameRank(item[2].rule_name) < NameRank(Head(s)[2].rule_name)
         THEN <<item>> \o s
         ELSE <<Head(s)>> \o InsertByName(Tail(s), item)

RECURSIVE SortItems(_, _)
SortItems(m, ids) ==
    IF ids = <<>> THEN <<>>
    ELSE InsertByName(SortItems(m, SubSeq(ids, 1, Len(ids) - 1)),
                      <<ids[Len(ids)], m[ids[Len(ids)]]>>)

\* mutant of SortedByName: the items in the order of the rule ids
SortedByName_ById(m) ==
    LET ids == SelectSeq(<<"a1", "b2">>, LAMBDA id : id \in DOMAIN m)
    IN  [i \in 1..Len(ids) |-> <<ids[i], m[ids[i]]>>]

\* OrderedDict(sorted(mapping.items(), key=lambda x: x[1]['rule_name'])):
\* the items of the mapping handed to save_etc_dump, in its order
SortedByName(m) == SortItems(m, ListOf(DOMAIN m))

\* save_etc_dump(contents, file): the file holds the items of the ordered
\* mapping in the order the mapping has them, the key order being the one
\* sorted by rule_name at write time
save_etc_dump(items) == items

\* load_etc_dump(file): the mapping a file of items holds
LoadDump(file) ==
    [id \in {file[i][1] : i \in 1..Len(file)} |->
        (CHOOSE item \in Range(file) : item[1] = id)[2]]

VARIABLES
    rules,          \* the Rule objects in memory: id -> name, body, version, changelog, maturity
    cache,          \* the memo of load_versions: loaded, map; how it is keyed; noarg
    lockFile,       \* etc/version.lock.json, the items in file order
    deprFile,       \* etc/deprecated_rules.json, the items in file order
    changelogFile,  \* etc/rules-changelog.json: id -> list of entries
    otherFile,      \* a changelog saved under another save_path
    today,          \* index in Days of the date last read from the clock
    steps,          \* operations done so far
    call,           \* the last operation and its arguments
    pre,            \* the state the last call started from
    ret,            \* what the last call returned or raised
    io,             \* the files the last call wrote and the rules it saved, in order
    prev,           \* call, pre and ret of the call right before the last one
    dg,             \* schemas.downgrade: the payload and target given, the calls made
    ld,             \* rule_loader.load_rules: the files and flag given, what it returned
    rc              \* rule_loader's @cached functions: their memos, the source, the resets

\* the state of packaging.py, of schemas and of rule_loader.py
packaging == <<rules, cache, lockFile, deprFile, changelogFile, otherFile, today, steps,
               call, pre, ret, io, prev>>
vars == <<rules, cache, lockFile, deprFile, changelogFile, otherFile, today, steps,
          call, pre, ret, io, prev, dg, ld, rc>>

\* ------------------------------------------------------- load_versions
\* load_versions(current_versions) under @cached, current_versions None:
\* the mapping loaded first is kept and handed out again, the same dict
\* object, to every later call
load_versions(c, file) == IF c.loaded THEN c.map ELSE LoadDump(file)

\* a memo entry of load_versions that was not filled
NoMemo == [loaded |-> FALSE, map |-> NoMap]
\* no call of load_versions made
NoCache == [loaded |-> FALSE, map |-> NoMap, keyed |-> "unknown", noarg |-> NoMemo]

\* what the memo of cached is keyed by: the arguments as the caller wrote
\* them, or the arguments bound to the parameters with the defaults filled in
Keyings == {"raw", "bound"}

\* load_versions() with no argument written, as initialize_rule_changelogs
\* calls it: under a memo keyed by the arguments as written this is another
\* entry than that of load_versions(None), under a memo keyed by the bound
\* arguments it is the same one
load_versions_noarg(c, keyed, file) ==
    IF keyed = "bound" THEN load_versions(c, file) ELSE load_versions(c.noarg, file)

\* the memo after load_versions() returned versions
Memoized_noarg(c, keyed, versions) ==
    IF keyed = "bound"
    THEN [c EXCEPT !.keyed = keyed, !.loaded = TRUE, !.map = versions]
    ELSE [c EXCEPT !.keyed = keyed, !.noarg = [loaded |-> TRUE, map |-> versions]]

\* current_versions=None: no mapping passed to manage_versions
NoVersions == [given |-> FALSE, map |-> NoMap]

\* load_versions(current_versions) with a mapping passed, on its first call
\* with that mapping: `current_versions or load_etc_dump('version.lock.json')`,
\* where an empty dict is false
load_versions_given(current_versions, file) ==
    IF current_versions # NoMap THEN current_versions ELSE LoadDump(file)

\* load_versions(bypass_cache=True): read from the file
load_versions_bypass(file) == LoadDump(file)

\* ------------------------------------------------------- manage_versions
\* mutant of NewEntry: the first version is counted from 0
NewEntry_FromZero(id, rule) ==
    [rule_name |-> rule.name, version |-> 0, sha256 |-> get_hash(id, rule)]

\* new_rules[rule.id] = {'rule_name': ..., 'version': 1, 'sha256': ...}
NewEntry(id, rule) ==
    [rule_name |-> rule.name, version |-> 1, sha256 |-> get_hash(id, rule)]

\* mutant of ChangedEntry: the new hash is not stored
ChangedEntry_KeepHash(info, id, rule, exclude_version_update) ==
    [rule_name |-> rule.name,
     version |-> IF ~exclude_version_update THEN info.version + 1 ELSE info.version,
     sha256 |-> info.sha256]

\* mutant of ChangedEntry: exclude_version_update is ignored
ChangedEntry_AlwaysBump(info, id, rule, exclude_version_update) ==
    [rule_name |-> rule.name, version |-> info.version + 1,
     sha256 |-> get_hash(id, rule)]

\* the lock entry of a rule whose hash changed: the version is bumped unless
\* exclude_version_update, then update(sha256=rule_hash, rule_name=rule.name)
ChangedEntry(info, id, rule, exclude_version_update) ==
    [rule_name |-> rule.name,
     version |-> IF ~exclude_version_update THEN info.version + 1 ELSE info.version,
     sha256 |-> get_hash(id, rule)]

\* `if rule.id not in current_versions`: the rule is new; st holds
\* current_versions (cv), the rules, new_rules with its key order (new_ids)
\* and changed_rules
NewRuleStep(st, id) ==
    [st EXCEPT !.new_rules = Put(@, id, NewEntry(id, st.rules[id])),
               !.new_ids = IF id \in DOMAIN st.new_rules THEN @ ELSE Append(@, id),
               !.rules[id].version = 1]

\* mutant of ChangedRuleStep: the rule keeps the locked version
ChangedRuleStep_NoBump(st, id, exclude_version_update) ==
    [st EXCEPT !.rules[id].version = st.cv[id].version,
               !.cv[id] = [version |-> st.cv[id].version, rule_name |-> st.rules[id].name,
                           sha256 |-> get_hash(id, st.rules[id])],
               !.changed_rules = Append(@, id)]

\* `if rule_hash != version_lock_info['sha256']`: the rule has been updated
ChangedRuleStep(st, id, exclude_version_update) ==
    [st EXCEPT !.rules[id].version = st.cv[id].version + 1,
               !.cv[id] = ChangedEntry(st.cv[id], id, st.rules[id], exclude_version_update),
               !.changed_rules = Append(@, id)]

\* mutant of UnchangedRuleStep: the version is bumped all the same
UnchangedRuleStep_Bump(st, id) ==
    [st EXCEPT !.rules[id].version = st.cv[id].version + 1,
               !.cv[id].version = st.cv[id].version + 1]

\* `else: rule.contents['version'] = version`
UnchangedRuleStep(st, id) ==
    [st EXCEPT !.rules[id].version = st.cv[id].version]

\* mutant of VersionStep: every rule in the lock counts as updated
VersionStep_NoCompare(st, id, exclude_version_update) ==
    IF id \notin DOMAIN st.cv
    THEN NewRuleStep(st, id)
    ELSE ChangedRuleStep(st, id, exclude_version_update)

\* one round of `for rule in rules`
VersionStep(st, id, exclude_version_update) ==
    IF id \notin DOMAIN st.cv
    THEN NewRuleStep(st, id)
    ELSE IF get_hash(id, st.rules[id]) # st.cv[id].sha256
         THEN ChangedRuleStep(st, id, exclude_version_update)
         ELSE UnchangedRuleStep(st, id)

RECURSIVE VersionLoop(_, _, _)
VersionLoop(st, rs, exclude_version_update) ==
    IF rs = <<>> THEN st
    ELSE VersionLoop(VersionStep(st, Head(rs), exclude_version_update), Tail(rs),
                     exclude_version_update)

\* rule_deprecations[rule.id] = {...}
DeprecationEntry(rule, date) ==
    [rule_name |-> rule.name, deprecation_date |-> date, stack_version |-> STACK_VERSION]

\* mutant of DeprecationStep: the registry is not consulted
DeprecationStep_Overwrite(st, id, rs, date) ==
    [rule_deprecations |->
         Put(st.rule_deprecations, id, DeprecationEntry(rs[id], date)),
     newly_deprecated |-> Append(st.newly_deprecated, id)]

\* one round of `for rule in deprecated_rules`; st holds rule_deprecations
\* and newly_deprecated
DeprecationStep(st, id, rs, date) ==
    IF id \notin DOMAIN st.rule_deprecations
    THEN [rule_deprecations |->
              Put(st.rule_deprecations, id, DeprecationEntry(rs[id], date)),
          newly_deprecated |-> Append(st.newly_deprecated, id)]
    ELSE st

RECURSIVE DeprecationLoop(_, _, _, _)
DeprecationLoop(st, ds, rs, date) ==
    IF ds = <<>> THEN st
    ELSE DeprecationLoop(DeprecationStep(st, Head(ds), rs, date), Tail(ds), rs, date)

\* ------------------------------------------------------- versions_locked
\* rule_loader.get_production_rules(include_deprecated=True)
get_production_rules(rs) ==
    ListOf({id \in RuleIds : rs[id].maturity \in {"production", "deprecated"}})

\* mutant of versions_locked: the lock is the mapping the memo hands out
versions_locked_Cached(ids, rs, file) ==
    LET checked == IF ids # <<>> THEN ids ELSE get_production_rules(rs)
        versions == load_versions(cache, file)
    IN  \A i \in 1..Len(checked) :
            /\ checked[i] \in DOMAIN versions
            /\ get_hash(checked[i], rs[checked[i]]) = versions[checked[i]].sha256

\* versions_locked(rules): every rule is in the version.lock file, read past
\* the memo, with the hash it has now
versions_locked(ids, rs, file) ==
    LET checked == IF ids # <<>> THEN ids ELSE get_production_rules(rs)
        versions == load_versions_bypass(file)
    IN  \A i \in 1..Len(checked) :
            /\ checked[i] \in DOMAIN versions
            /\ get_hash(checked[i], rs[checked[i]]) = versions[checked[i]].sha256

\* ------------------------------------------- ChangelogMgmt.update_and_lock
default_changes == {VERSION_LOCKED, RULE_CREATED}

\* mutant of Changes: '_rule_created_' is not taken for a default
Changes_OnlyLocked(rule_changelog) ==
    SelectSeq(rule_changelog, LAMBDA c : c # VERSION_LOCKED)

\* changes = [c for c in rule_changelog if c['message'] not in default_changes]
Changes(rule_changelog) == SelectSeq(rule_changelog, LAMBDA c : c \notin default_changes)

\* ChangelogEntry.Schema().load({...}).dump()
ChangelogEntry(changes, rule) ==
    [changes |-> changes,
     minimum_kibana_version |-> MinKibana,
     rule_version |-> get_version(rule)]

\* mutant of AppendEntry: the entry takes the place of the rule's list
AppendEntry_Replace(changelog, id, entry) == Put(changelog, id, <<entry>>)

\* global_entry = changelog.setdefault(rule.id, []); global_entry.append(entry)
AppendEntry(changelog, id, entry) ==
    Put(changelog, id, Append(IF id \in DOMAIN changelog THEN changelog[id] ELSE <<>>, entry))

\* mutant of Popped: the notes stay in the rule's metadata
Popped_Get(rule, dry_run) == rule

\* the rule after rule.metadata.get('changelog') (a dry run) or
\* rule.metadata.pop('changelog', []) (otherwise)
Popped(rule, dry_run) ==
    IF dry_run THEN rule
    ELSE [rule EXCEPT !.has_changelog = FALSE, !.changelog = <<>>]

\* mutant of Reseed: deprecated rules get the sentinel as well
Reseed_Always(popped) == append_changelog_entry(popped, VERSION_LOCKED)

\* the local log left to a rule whose notes went into the global changelog
Reseed(popped) ==
    IF popped.maturity # "deprecated"
    THEN append_changelog_entry(popped, VERSION_LOCKED)
    ELSE popped

\* one round of `for rule in rules`; st holds the rules, the changelog being
\* built, the rules saved so far and the exception raised, if any
ChangelogStep(st, id, dry_run) ==
    LET rule == st.rules[id] IN
    IF st.raised # "none" THEN st
    ELSE IF dry_run /\ ~rule.has_changelog
    \* rule.metadata.get('changelog') is None: the comprehension over it raises
    THEN [st EXCEPT !.raised = "TypeError"]
    ELSE
        LET rule_changelog == IF rule.has_changelog THEN rule.changelog ELSE <<>>
            popped == Popped(rule, dry_run)
            changes == Changes(rule_changelog)
        IN  IF changes # <<>>
            THEN [st EXCEPT
                    !.changelog = AppendEntry(@, id, ChangelogEntry(changes, popped)),
                    !.rules[id] = IF dry_run THEN rule ELSE Reseed(popped),
                    !.io = IF dry_run THEN @
                           ELSE Append(@, [ev |-> "save_rule", what |-> id])]
            \* put back changelog for unchanged rules
            ELSE [st EXCEPT
                    !.rules[id] = [popped EXCEPT !.has_changelog = TRUE,
                                                 !.changelog = rule_changelog]]

RECURSIVE ChangelogLoop(_, _, _)
ChangelogLoop(st, ids, dry_run) ==
    IF ids = <<>> THEN st
    ELSE ChangelogLoop(ChangelogStep(st, Head(ids), dry_run), Tail(ids), dry_run)

\* mutant of LockAsserted: no assertion
LockAsserted_Off(ids, rs, file, save_path) == TRUE

\* whether the assertion before the save lets the call go on
LockAsserted(ids, rs, file, save_path) ==
    save_path = CHANGELOG_FILE => versions_locked(ids, rs, file)

\* update_and_lock(rules, save_path, dry_run) on the rules rs, the changelog
\* file and the version.lock file as they are: the rules afterwards, the
\* changelog computed, what was raised, and what was written (wrote: the
\* changelog was saved under save_path)
update_and_lock(ids, rs, changelog_file, lock_file, save_path, dry_run) ==
    LET looped == ChangelogLoop([rules |-> rs, changelog |-> changelog_file,
                                 io |-> <<>>, raised |-> "none"], ids, dry_run)
        asserted == LockAsserted(ids, looped.rules, lock_file, save_path)
    IN  IF looped.raised # "none" \/ dry_run
        THEN [rules |-> looped.rules, changelog |-> looped.changelog,
              raised |-> looped.raised, io |-> looped.io, wrote |-> FALSE]
        ELSE IF ~asserted
        THEN [rules |-> looped.rules, changelog |-> looped.changelog,
              raised |-> "AssertionError", io |-> looped.io, wrote |-> FALSE]
        ELSE [rules |-> looped.rules, changelog |-> looped.changelog,
              raised |-> "none",
              io |-> Append(looped.io, [ev |-> "write", what |-> save_path]),
              wrote |-> TRUE]

\* ------------------------------------------------------- manage_versions
\* mutant of Saving: what was detected is saved whatever save_changes
Saving_Always(detected, save_changes) == detected

\* `if new_rules or changed_rules or newly_deprecated:` ... `if save_changes:`
Saving(detected, save_changes) == detected /\ save_changes

\* manage_versions(rules, deprecated_rules, current_versions, exclude_version_update,
\* add_new, save_changes) on the state it finds, run on the day Days[date]:
\* everything it leaves behind
manage_versions(ids, dep_ids, given, exclude_version_update, add_new, save_changes, date) ==
    LET current_versions == IF given.given
                            THEN load_versions_given(given.map, lockFile)
                            ELSE load_versions(cache, lockFile)
        looped == VersionLoop([cv |-> current_versions, rules |-> rules,
                               new_rules |-> NoMap, new_ids |-> <<>>,
                               changed_rules |-> <<>>], ids, exclude_version_update)
        dep == IF dep_ids # <<>>
               THEN DeprecationLoop([rule_deprecations |-> LoadDump(deprFile),
                                     newly_deprecated |-> <<>>],
                                    dep_ids, rules, Days[date])
               ELSE [rule_deprecations |-> NoMap, newly_deprecated |-> <<>>]
        detected == \/ looped.new_ids # <<>>
                    \/ looped.changed_rules # <<>>
                    \/ dep.newly_deprecated # <<>>
        write_lock == /\ Saving(detected, save_changes)
                      /\ \/ looped.changed_rules # <<>>
                         \/ (looped.new_ids # <<>> /\ add_new)
        write_depr == Saving(detected, save_changes) /\ dep.newly_deprecated # <<>>
        \* current_versions.update(new_rules if add_new else {})
        updated == IF write_lock
                   THEN Update(looped.cv, IF add_new THEN looped.new_rules ELSE NoMap)
                   ELSE looped.cv
        lock_after == IF write_lock THEN save_etc_dump(SortedByName(updated)) ELSE lockFile
        depr_after == IF write_depr THEN save_etc_dump(SortedByName(dep.rule_deprecations))
                      ELSE deprFile
        locking == Saving(detected, save_changes)
        \* only modify the global changelog _after_ versions are locked
        ual == IF locking
               THEN update_and_lock(ids, looped.rules, changelogFile, lock_after,
                                    CHANGELOG_FILE, FALSE)
               ELSE [rules |-> looped.rules, changelog |-> NoMap, raised |-> "none",
                     io |-> <<>>, wrote |-> FALSE]
    IN  [rules |-> ual.rules,
         \* the memo of load_versions(None) is another one than that of a
         \* call with a mapping
         cache |-> IF given.given THEN cache
                   ELSE [cache EXCEPT !.loaded = TRUE, !.map = updated],
         lockFile |-> lock_after,
         deprFile |-> depr_after,
         changelogFile |-> IF ual.wrote THEN ual.changelog ELSE changelogFile,
         io |-> (IF write_lock THEN <<[ev |-> "write", what |-> "version.lock.json"]>>
                 ELSE <<>>)
                \o (IF write_depr THEN <<[ev |-> "write", what |-> "deprecated_rules.json"]>>
                    ELSE <<>>)
                \o (IF locking THEN <<[ev |-> "call", what |-> "update_and_lock"]>>
                    ELSE <<>>)
                \o ual.io,
         pre_cv |-> current_versions,
         ret |-> [raised |-> ual.raised,
                  changed_rules |-> looped.changed_rules,
                  new_rules |-> looped.new_ids,
                  new_entries |-> looped.new_rules,
                  newly_deprecated |-> dep.newly_deprecated,
                  rule_deprecations |-> dep.rule_deprecations,
                  changelog |-> ual.changelog]]

\* ----------------------------------------------------------------- state
Rule(body) ==
    [name |-> "", body |-> body, version |-> 0, has_changelog |-> FALSE,
     changelog |-> <<>>, maturity |-> "production"]

NoCall ==
    [op |-> "none", rules |-> <<>>, deprecated_rules |-> <<>>,
     exclude_version_update |-> FALSE, add_new |-> FALSE, save_changes |-> FALSE,
     save_path |-> "", dry_run |-> FALSE, current_versions |-> NoVersions,
     force |-> FALSE, flush |-> FALSE]

NoPre ==
    [rules |-> NoMap, cv |-> NoMap, lockFile |-> <<>>, deprFile |-> <<>>,
     changelogFile |-> NoMap, otherFile |-> NoMap, today |-> 0]

NoRet ==
    [raised |-> "none", changed_rules |-> <<>>, new_rules |-> <<>>,
     new_entries |-> NoMap, newly_deprecated |-> <<>>, rule_deprecations |-> NoMap,
     changelog |-> NoMap]

NoPrev == [call |-> NoCall, pre |-> NoPre, ret |-> NoRet]

\* what a call finds: the snapshot kept in pre
Snapshot(cv) ==
    [rules |-> rules, cv |-> cv, lockFile |-> lockFile, deprFile |-> deprFile,
     changelogFile |-> changelogFile, otherFile |-> otherFile, today |-> today]

\* the lock entries a version.lock.json can hold for a rule when a run starts:
\* none, the hash of its content, or the hash of an earlier content
InitLocks ==
    {m \in UNION {[S -> Bodies] : S \in SUBSET RuleIds} :
        "b2" \in DOMAIN m => m["b2"] = "q1"}

InitLockFile(m) ==
    save_etc_dump(SortedByName([id \in DOMAIN m |->
        [rule_name |-> NameOf[id], version |-> InitVersion,
         sha256 |-> get_hash(id, [name |-> NameOf[id], body |-> m[id]])]]))

\* the rules-changelog.json a run starts with: one entry, of the locked
\* version, for b2 when it is in the version lock
InitChangelog(m) ==
    [id \in DOMAIN m \cap {"b2"} |->
        <<[changes |-> <<ARBITRARY>>, minimum_kibana_version |-> MinKibana,
           rule_version |-> InitVersion]>>]

\* `if rule.metadata.get('changelog') and not force: continue`
Skipped(rule, force) == rule.has_changelog /\ rule.changelog # <<>> /\ ~force

\* the rule as initialize_rule_changelogs leaves it when it is not skipped:
\* the log dropped first with flush, then '_version_locked_' and, for a
\* deprecated rule '_deprecated_', else for another hash than the locked one
\* 'some arbitrary change', when the rule is in the version lock, and
\* '_rule_created_' when it is not
InitialLog(rule, id, versions, flush) ==
    LET flushed == IF flush THEN [rule EXCEPT !.has_changelog = FALSE, !.changelog = <<>>]
                   ELSE rule
        locked == append_changelog_entry(flushed, VERSION_LOCKED)
    IN  IF id \in DOMAIN versions
        THEN IF rule.maturity = "deprecated"
             THEN append_changelog_entry(locked, DEPRECATED)
             ELSE IF get_hash(id, rule) # versions[id].sha256
             THEN append_changelog_entry(locked, ARBITRARY)
             ELSE locked
        ELSE append_changelog_entry(flushed, RULE_CREATED)

\* one round of `for rule in rules:` on the rules as the rounds before left
\* them: the rule passed over, or given its log and saved
InitializeStep(st, id, versions, force, flush) ==
    IF Skipped(st.rules[id], force) THEN st
    ELSE [rules |-> [st.rules EXCEPT ![id] = InitialLog(@, id, versions, flush)],
          io |-> Append(st.io, [ev |-> "save_rule", what |-> id])]

\* `for rule in rules:` over the list ids, from the first on
RECURSIVE InitializeLoop(_, _, _, _, _)
InitializeLoop(st, ids, versions, force, flush) ==
    IF ids = <<>> THEN st
    ELSE InitializeLoop(InitializeStep(st, Head(ids), versions, force, flush),
                        Tail(ids), versions, force, flush)

\* initialize_rule_changelogs(rules, force, flush) on the rules rs with the
\* mapping load_versions() returned: the rules afterwards and the rules saved
initialize_rule_changelogs(ids, rs, versions, force, flush) ==
    InitializeLoop([rules |-> rs, io |-> <<>>], ids, versions, force, flush)

\* no payload given to downgrade, no files given to load_rules
NoPayload == [type |-> "", has_version |-> FALSE, fields |-> {}]
NoDowngrade ==
    [api_contents |-> NoPayload, target_version |-> "",
     calls |-> <<>>]
NoLoad ==
    [file_lookup |-> <<>>, error |-> FALSE, done |-> FALSE,
     ret |-> [raised |-> "none", rules |-> <<>>, errors |-> <<>>]]

\* the functions of rule_loader.py under @cached
Loaders ==
    {"load_rule_files", "load_rules", "get_rule", "filter_rules",
     "load_rule_contents_from_release", "load_rule_contents_from_github_release"}
\* how a caller writes the verbose argument of a loader: left out, so that
\* the default True applies, verbose=True, or verbose=False
Forms == {"default", "verbose", "quiet"}
\* the loaders with a verbose parameter; the calls of the others differ in
\* no argument here
HasVerbose == {"load_rule_files", "load_rules", "get_rule"}
FormsOf(l) == IF l \in HasVerbose THEN Forms ELSE {"default"}
\* the memo entry a call form reads and fills
Key(keyed, form) == IF keyed = "bound" /\ form = "default" THEN "verbose" ELSE form
\* the memo entry of a call that was not made, or was cleared
NotCached == [cached |-> FALSE, value |-> 0, epoch |-> 0, rules |-> NoMap]
\* what a loader reads of the rule files: of each rule the name, the content
\* and the maturity the file has
AsLoaded(rs) ==
    [id \in DOMAIN rs |->
        [name |-> rs[id].name, body |-> rs[id].body, maturity |-> rs[id].maturity]]
\* the memo of a function that was not called, or was cleared
Cleared == [k \in Forms |-> NotCached]
\* no function called, the rule sources as they first are, no reset()
NoCaches ==
    [keyed |-> "raw", source |-> 0, resets |-> 0, calls |-> 0,
     memo |-> [l \in Loaders |-> Cleared],
     last |-> [op |-> "none", loader |-> "", form |-> "", result |-> NotCached]]

\* the cached function the body of a cached function calls: load_rules calls
\* load_rule_files, get_rule and filter_rules call load_rules; the others
\* read the rule files, the release package, the GitHub release
Calls ==
    [l \in {"load_rules", "get_rule", "filter_rules"} |->
        IF l = "load_rules" THEN "load_rule_files" ELSE "load_rules"]

\* the form of that inner call: load_rules and get_rule pass the verbose they
\* have by keyword, `load_rule_files(verbose=verbose)` and
\* `load_rules(verbose=verbose)`; filter_rules calls `load_rules(verbose=False)`
InnerForm(l, form) ==
    IF l = "filter_rules" \/ form = "quiet" THEN "quiet" ELSE "verbose"

\* a call of the @cached function l written in the given form: the result
\* memoized for these arguments when there is one; else the result of the
\* body, from the sources as they are or from the cached function it calls,
\* memoized. A result carries the generation of the sources it was read from,
\* the number of resets there were when it was read, and the rules as the
\* files rs had them then.
RECURSIVE Cached(_, _, _, _, _, _, _)
Cached(memo, l, form, keyed, source, resets, rs) ==
    LET key == Key(keyed, form) IN
    IF memo[l][key].cached THEN [memo |-> memo, result |-> memo[l][key]]
    ELSE IF l \in DOMAIN Calls
    THEN LET inner == Cached(memo, Calls[l], InnerForm(l, form), keyed, source, resets, rs)
         IN  [memo |-> [inner.memo EXCEPT ![l][key] = inner.result],
              result |-> inner.result]
    ELSE LET read == [cached |-> TRUE, value |-> source, epoch |-> resets,
                      rules |-> AsLoaded(rs)]
         IN  [memo |-> [memo EXCEPT ![l][key] = read], result |-> read]

\* rule a1 starts without a local changelog, rule b2 with an initialized one
Init ==
    /\ \E m \in InitLocks :
        /\ lockFile = InitLockFile(m)
        /\ changelogFile = InitChangelog(m)
        /\ rules = [id \in RuleIds |->
                        IF id = "a1" THEN [Rule("q1") EXCEPT !.name = NameOf[id]]
                        ELSE InitialLog([Rule("q1") EXCEPT !.name = NameOf[id]], id,
                                        LoadDump(InitLockFile(m)), FALSE)]
    /\ cache = NoCache
    /\ deprFile = <<>>
    /\ otherFile = NoMap
    /\ today = 1
    /\ steps = 0
    /\ call = NoCall
    /\ pre = NoPre
    /\ ret = NoRet
    /\ io = <<>>
    /\ prev = NoPrev
    /\ dg = NoDowngrade
    /\ ld = NoLoad
    /\ rc = NoCaches

\* ---------------------------------------------------------------- actions
Step == steps < MaxSteps /\ steps' = steps + 1

\* the history kept by a call
Called(c, cv, r, events) ==
    /\ prev' = [call |-> call, pre |-> pre, ret |-> ret]
    /\ call' = c
    /\ pre' = Snapshot(cv)
    /\ ret' = r
    /\ io' = events

\* an edit between calls starts a new history
Edited ==
    /\ prev' = NoPrev
    /\ call' = NoCall
    /\ pre' = NoPre
    /\ ret' = NoRet
    /\ io' = <<>>

\* the rule sets a caller passes: every rule, or (as Package.from_config
\* does) the production rules, the deprecated ones going to deprecated_rules
Working == {RuleIds, {id \in RuleIds : rules[id].maturity # "deprecated"}}

\* exclude_version_update, add_new, save_changes as callers set them; add_new
\* is read only when save_changes is set
Flags ==
    {f \in [exclude_version_update : BOOLEAN, add_new : BOOLEAN, save_changes : BOOLEAN] :
        ~f.save_changes => f.add_new}

\* a caller runs manage_versions(rules, deprecated_rules, ...)
ManageVersions ==
    /\ Step
    /\ \E rs \in Working, f \in Flags, date \in today..Len(Days) :
        LET ds == {id \in RuleIds \ rs : rules[id].maturity = "deprecated"}
            out == manage_versions(ListOf(rs), ListOf(ds), NoVersions,
                                   f.exclude_version_update,
                                   f.add_new, f.save_changes, date) IN
        \* datetime.date.today() is read only `if deprecated_rules`
        /\ ds = {} => date = today
        /\ today' = date
        /\ rules' = out.rules
        /\ cache' = out.cache
        /\ lockFile' = out.lockFile
        /\ deprFile' = out.deprFile
        /\ changelogFile' = out.changelogFile
        /\ Called([NoCall EXCEPT !.op = "manage_versions", !.rules = ListOf(rs),
                                 !.deprecated_rules = ListOf(ds),
                                 !.exclude_version_update = f.exclude_version_update,
                                 !.add_new = f.add_new,
                                 !.save_changes = f.save_changes],
                  out.pre_cv, out.ret, out.io)
    /\ UNCHANGED <<otherFile, dg, ld, rc>>

\* save_path and dry_run as callers set them; a dry run saves nowhere
Targets ==
    {t \in [save_path : {CHANGELOG_FILE, OTHER_FILE}, dry_run : BOOLEAN] :
        t.dry_run => t.save_path = CHANGELOG_FILE}

\* a caller runs ChangelogMgmt.update_and_lock(rules, save_path, dry_run)
UpdateAndLock ==
    /\ Step
    /\ \E rs \in Working, t \in Targets :
        LET out == update_and_lock(ListOf(rs), rules, changelogFile, lockFile,
                                   t.save_path, t.dry_run) IN
        /\ rules' = out.rules
        /\ changelogFile' = IF out.wrote /\ t.save_path = CHANGELOG_FILE
                            THEN out.changelog ELSE changelogFile
        /\ otherFile' = IF out.wrote /\ t.save_path = OTHER_FILE
                        THEN out.changelog ELSE otherFile
        /\ Called([NoCall EXCEPT !.op = "update_and_lock", !.rules = ListOf(rs),
                                 !.save_path = t.save_path, !.dry_run = t.dry_run],
                  NoMap, [NoRet EXCEPT !.raised = out.raised, !.changelog = out.changelog],
                  out.io)
    /\ UNCHANGED <<cache, lockFile, deprFile, today, dg, ld, rc>>

\* the content that follows body in the history of a rule file
NextBody(body) == IF body = "q1" THEN "q2" ELSE body

\* a developer changes the content of a rule, notes a change in the rule's
\* changelog, or both
EditRule ==
    /\ Step
    /\ \E id \in RuleIds, notes \in {<<>>, <<ARBITRARY>>} :
       \E body \in {rules[id].body, NextBody(rules[id].body)} :
        /\ body # rules[id].body \/ notes # <<>>
        /\ rules' = [rules EXCEPT ![id] =
                        IF notes = <<>> THEN [@ EXCEPT !.body = body]
                        ELSE append_changelog_entry([@ EXCEPT !.body = body], notes[1])]
    /\ Edited
    /\ UNCHANGED <<cache, lockFile, deprFile, changelogFile, otherFile, today, dg, ld, rc>>

\* the rules that get retired in a run
Retirable == {"b2"}

\* a developer retires a rule: maturity deprecated, noted in its changelog
DeprecateRule ==
    /\ Step
    /\ \E id \in Retirable :
        /\ rules[id].maturity # "deprecated"
        /\ rules' = [rules EXCEPT ![id] =
                        append_changelog_entry([@ EXCEPT !.maturity = "deprecated"],
                                               DEPRECATED)]
    /\ Edited
    /\ UNCHANGED <<cache, lockFile, deprFile, changelogFile, otherFile, today, dg, ld, rc>>

\* a caller runs ChangelogMgmt.initialize_rule_changelogs(rules, force, flush)
InitializeRuleChangelogs ==
    /\ Step
    /\ \E rs \in Working, force \in BOOLEAN, flush \in BOOLEAN :
      \E keyed \in IF cache.keyed = "unknown" THEN Keyings ELSE {cache.keyed} :
        LET versions == load_versions_noarg(cache, keyed, lockFile)
            out == initialize_rule_changelogs(ListOf(rs), rules, versions, force, flush) IN
        /\ rules' = out.rules
        /\ cache' = Memoized_noarg(cache, keyed, versions)
        /\ Called([NoCall EXCEPT !.op = "initialize_rule_changelogs",
                                 !.rules = ListOf(rs),
                                 !.force = force, !.flush = flush],
                  versions, NoRet, out.io)
    /\ UNCHANGED <<lockFile, deprFile, changelogFile, otherFile, today, dg, ld, rc>>

Next ==
    \/ ManageVersions
    \/ UpdateAndLock
    \/ InitializeRuleChangelogs
    \/ EditRule
    \/ DeprecateRule

Spec == Init /\ [][Next]_vars

\* ------------------------------------------------- versions_locked, asked
\* True and False as the caller gets them
Returned(value) == [ev |-> "return", what |-> IF value THEN "True" ELSE "False"]

\* get_production_rules(include_deprecated=True), verbose left False, calls
\* load_rules(verbose=verbose), which calls load_rule_files(verbose=verbose):
\* the memos of rule_loader afterwards, the rule files being as rs
ProductionRulesLoaded(c, rs) ==
    [c EXCEPT !.memo = Cached(c.memo, "load_rules", "quiet", c.keyed,
                              c.source, c.resets, rs).memo]

\* the rules load_rules(verbose=False) returns from its memo: those of its
\* first call since the memo was cleared
ProductionRules(c) == c.memo["load_rules"]["quiet"].rules

\* a caller asks versions_locked(rules); with no rules given, or none in the
\* list, the call takes the rules get_production_rules has load_rules hand
\* out, which are those memoized when there are
VersionsLocked ==
    /\ Step
    /\ \E rs \in SUBSET RuleIds :
        LET loaded == ProductionRulesLoaded(rc, rules)
            checked == IF ListOf(rs) = <<>> THEN ProductionRules(loaded) ELSE rules IN
        /\ Called([NoCall EXCEPT !.op = "versions_locked", !.rules = ListOf(rs)],
                  load_versions(cache, lockFile), NoRet,
                  <<Returned(versions_locked(ListOf(rs), checked, lockFile))>>)
        /\ rc' = IF ListOf(rs) = <<>> THEN loaded ELSE rc
    /\ UNCHANGED <<rules, cache, lockFile, deprFile, changelogFile, otherFile, today,
                   dg, ld>>

NextLocked ==
    \/ ManageVersions
    \/ InitializeRuleChangelogs
    \/ EditRule
    \/ VersionsLocked

\* version.lock.json reconciled, the rules edited, and the lock asked about
SpecLocked == Init /\ [][NextLocked]_vars

\* ------------------------------------------------------ schemas.downgrade
\* STACK_VERSION of ApiSchema78 .. ApiSchema713, in the order of all_schemas
all_schemas == <<"7.8", "7.9", "7.10", "7.11", "7.12", "7.13">>
\* CurrentSchema = all_schemas[-1], by its place in the list
CurrentSchema == Len(all_schemas)

\* the target versions callers ask for
TargetVersions ==
    {"7.8", "7.9.2", "7.10", "7.11", "7.12", "7.13", "7.13.0", "7.7", "7", "99.99"}

\* semver.Version(s): the numbers of a version string
Version(s) ==
    CASE s = "7.8" -> <<7, 8>>
      [] s = "7.9" -> <<7, 9>>
      [] s = "7.9.2" -> <<7, 9, 2>>
      [] s = "7.10" -> <<7, 10>>
      [] s = "7.11" -> <<7, 11>>
      [] s = "7.12" -> <<7, 12>>
      [] s = "7.13" -> <<7, 13>>
      [] s = "7.13.0" -> <<7, 13, 0>>
      [] s = "7.7" -> <<7, 7>>
      [] s = "7" -> <<7>>
      [] s = "99.99" -> <<99, 99>>

\* version[:2]
Truncated(version) == SubSeq(version, 1, IF Len(version) < 2 THEN Len(version) ELSE 2)

\* versions = set(Version(schema_cls.STACK_VERSION) for schema_cls in all_schemas)
versions == {Version(all_schemas[i]) : i \in DOMAIN all_schemas}

\* mutant of TargetKnown: every target is let through
TargetKnown_Always(target_version) == TRUE

\* not (target_version not in versions)
TargetKnown(target_version) == target_version \in versions

\* mutant of AtTarget: the walk never stops at the target
AtTarget_Never(current_schema, target_version) == FALSE

\* Version(current_schema.STACK_VERSION) == target_version
AtTarget(current_schema, target_version) ==
    Version(all_schemas[current_schema.index]) = target_version

\* a payload is its "type", whether it has a "version", and its other fields,
\* each named by the STACK_VERSION of the schema that brought it in
IndexOf(stack_version) == CHOOSE i \in DOMAIN all_schemas : all_schemas[i] = stack_version

\* the fields left when those brought in after the schema at index are dropped
Stripped(fields, index) == {f \in fields : IndexOf(f) <= index}

\* current_schema.downgrade(target_schema, api_contents, role): one step, from
\* a schema to the one before it: the fields brought in after the target
\* schema are dropped, and "version" with them unless the target schema is the
\* versioned variant. The renaming, reshaping and defaults of a step, chosen
\* by role, belong to the schema definitions and are left out
SingleStep(current_schema, target_schema, api_contents, role) ==
    [raised |-> "none",
     api_contents |-> [api_contents EXCEPT
                        !.fields = Stripped(@, target_schema.index),
                        !.has_version = @ /\ target_schema.versioned]]

\* no schema yet: current_schema = None
NoSchema == [index |-> 0, versioned |-> FALSE]

\* mutant of Variant: the schema of all_schemas as it is
Variant_Plain(index, check_versioned) == [index |-> index, versioned |-> FALSE]

\* `if check_versioned: target_schema = target_schema.versioned()`
Variant(index, check_versioned) == [index |-> index, versioned |-> check_versioned]

\* `for target_schema in reversed(all_schemas)` from the schema at index i on;
\* st holds api_contents, current_schema, the steps made and what was raised
RECURSIVE DowngradeLoop(_, _, _, _, _)
DowngradeLoop(st, i, target_version, role, check_versioned) ==
    IF i = 0 \/ st.raised # "none" THEN st
    ELSE
        LET target_schema == Variant(i, check_versioned)
            step == SingleStep(st.current_schema, target_schema, st.api_contents, role)
            stepped ==
                IF st.current_schema # NoSchema
                THEN [st EXCEPT
                        !.api_contents = step.api_contents,
                        !.raised = step.raised,
                        !.trace = Append(@, [from |-> st.current_schema,
                                             to |-> target_schema,
                                             role |-> role,
                                             given |-> st.api_contents,
                                             out |-> step.api_contents])]
                ELSE st
            moved == [stepped EXCEPT !.current_schema = target_schema]
        IN  IF stepped.raised # "none" THEN stepped
            ELSE IF AtTarget(target_schema, target_version) THEN moved
            ELSE DowngradeLoop(moved, i - 1, target_version, role, check_versioned)

\* downgrade(api_contents, target_version): what is raised, the payload
\* returned and the single steps made
downgrade(api_contents, target_version_str) ==
    LET target_version == Truncated(Version(target_version_str))
        role == api_contents.type
        check_versioned == api_contents.has_version
    IN  IF ~TargetKnown(target_version)
        THEN [raised |-> "ValueError", api_contents |-> NoPayload, trace |-> <<>>]
        ELSE LET looped == DowngradeLoop([api_contents |-> api_contents,
                                          current_schema |-> NoSchema,
                                          trace |-> <<>>, raised |-> "none"],
                                         Len(all_schemas), target_version, role,
                                         check_versioned)
             IN  [raised |-> looped.raised, api_contents |-> looped.api_contents,
                  trace |-> looped.trace]

\* the payloads given: rules of the current schema, of type query or
\* threshold, with or without a "version"
Payloads ==
    [type : {"query", "threshold"}, has_version : BOOLEAN,
     fields : SUBSET {"7.8", "7.9", "7.12", "7.13"}]

\* nothing of packaging.py runs
PackagingIdle ==
    /\ rules = NoMap
    /\ cache = NoCache
    /\ lockFile = <<>>
    /\ deprFile = <<>>
    /\ changelogFile = NoMap
    /\ otherFile = NoMap
    /\ today = 1
    /\ steps = 0
    /\ call = NoCall
    /\ pre = NoPre
    /\ ret = NoRet
    /\ io = <<>>
    /\ prev = NoPrev

InitDowngrade ==
    /\ PackagingIdle
    /\ ld = NoLoad
    /\ rc = NoCaches
    /\ dg \in [api_contents : Payloads, target_version : TargetVersions, calls : {<<>>}]

\* a caller downgrades the payload to the target
Downgrade ==
    /\ dg.calls = <<>>
    /\ dg' = [dg EXCEPT !.calls = <<downgrade(dg.api_contents, dg.target_version)>>]
    /\ UNCHANGED <<packaging, ld, rc>>

\* the caller downgrades what it got to the same target
DowngradeAgain ==
    /\ Len(dg.calls) = 1
    /\ dg.calls[1].raised = "none"
    /\ dg' = [dg EXCEPT !.calls =
                Append(@, downgrade(dg.calls[1].api_contents, dg.target_version))]
    /\ UNCHANGED <<packaging, ld, rc>>

NextDowngrade ==
    \/ Downgrade
    \/ DowngradeAgain

SpecDowngrade == InitDowngrade /\ [][NextDowngrade]_vars

\* ------------------------------------------------- rule_loader.load_rules
\* the most files a file_lookup holds
MaxFiles == 4

\* the rule files there are, and what Rule(rule_file, rule_contents) makes of
\* each: id, name, parsed query ("none": no query), and whether the file name
\* matches FILE_PATTERN
RuleFiles ==
    [f \in {"a.toml", "b.toml", "a_copy.toml", "z.toml", "d.toml", "Bad Name.toml"} |->
        CASE f = "a.toml" ->
                [id |-> "a1", name |-> "Zeta rule", query |-> "q1", matches |-> TRUE]
          [] f = "b.toml" ->
                [id |-> "b2", name |-> "Alpha rule", query |-> "q2", matches |-> TRUE]
          [] f = "a_copy.toml" ->
                [id |-> "a1", name |-> "Beta rule", query |-> "none", matches |-> TRUE]
          [] f = "z.toml" ->
                [id |-> "c3", name |-> "Zeta rule", query |-> "none", matches |-> TRUE]
          [] f = "d.toml" ->
                [id |-> "d4", name |-> "Delta rule", query |-> "q1", matches |-> TRUE]
          [] f = "Bad Name.toml" ->
                [id |-> "e5", name |-> "Gamma rule", query |-> "q2", matches |-> FALSE]]

\* the order of rule names under sorted()
RuleNameRank(name) ==
    CASE name = "Alpha rule" -> 1
      [] name = "Beta rule" -> 2
      [] name = "Delta rule" -> 3
      [] name = "Gamma rule" -> 4
      [] name = "Zeta rule" -> 5

\* the first place of x in the list s: s.index(x), next(r for r in s if ...)
FirstIndex(s, x) == CHOOSE i \in 1..Len(s) : s[i] = x /\ \A j \in 1..(i - 1) : s[j] # x
\* the ids and the names of the rules loaded, in the order of the list
IdsOf(loaded) == [i \in 1..Len(loaded) |-> RuleFiles[loaded[i]].id]
NamesOf(loaded) == [i \in 1..Len(loaded) |-> RuleFiles[loaded[i]].name]

\* mutant of FoundWrong: the name of the rule is not checked
FoundWrong_AnyName(st, rule_file) ==
    LET rule == RuleFiles[rule_file] IN
    IF rule.id \in st.rule_ids
    THEN [raised |-> "KeyError", what |-> "duplicate ID",
          existing |-> st.rules[FirstIndex(IdsOf(st.rules), rule.id)]]
    ELSE IF ~rule.matches
    THEN [raised |-> "ValueError", what |-> "rule name standard", existing |-> ""]
    ELSE [raised |-> "none", what |-> "", existing |-> ""]

\* what the checks of lines 123-144 find wrong with rule_file, given the rules
\* loaded so far: the exception and the file it names as existing
FoundWrong(st, rule_file) ==
    LET rule == RuleFiles[rule_file] IN
    IF rule.id \in st.rule_ids
    THEN [raised |-> "KeyError", what |-> "duplicate ID",
          existing |-> st.rules[FirstIndex(IdsOf(st.rules), rule.id)]]
    ELSE IF rule.name \in st.rule_names
    THEN [raised |-> "KeyError", what |-> "duplicate name",
          existing |-> st.rules[FirstIndex(NamesOf(st.rules), rule.name)]]
    ELSE IF rule.query # "none" /\ rule.query \in Range(st.queries)
    THEN [raised |-> "KeyError", what |-> "duplicate query",
          existing |-> Append(st.query_check_index, rule_file)[
                            FirstIndex(st.queries, rule.query)]]
    ELSE IF ~rule.matches
    THEN [raised |-> "ValueError", what |-> "rule name standard", existing |-> ""]
    ELSE [raised |-> "none", what |-> "", existing |-> ""]

\* mutant of Fatal: the exception is never raised again
Fatal_Never(error) == FALSE

\* `if error: raise e`
Fatal(error) == error

\* one round of `for rule_file, rule_contents in file_lookup.items()`
LoadStep(st, rule_file, error) ==
    LET rule == RuleFiles[rule_file]
        found == FoundWrong(st, rule_file)
        \* the query checks are reached past the ID and name checks
        reached == rule.id \notin st.rule_ids /\ rule.name \notin st.rule_names
        indexed == [st EXCEPT
                      !.query_check_index =
                            IF reached /\ rule.query # "none"
                            THEN Append(@, rule_file) ELSE @,
                      !.queries =
                            IF reached /\ rule.query # "none"
                               /\ rule.query \notin Range(st.queries)
                            THEN Append(@, rule.query) ELSE @]
    IN  IF st.raised # "none" THEN st
        ELSE IF found.raised # "none"
        THEN [indexed EXCEPT
                !.failed = TRUE,
                !.errors = Append(@, [file |-> rule_file, what |-> found.what,
                                      existing |-> found.existing]),
                !.raised = IF Fatal(error) THEN found.raised ELSE "none"]
        ELSE [indexed EXCEPT
                !.rules = Append(@, rule_file),
                !.rule_ids = @ \cup {rule.id},
                !.rule_names = @ \cup {rule.name}]

RECURSIVE LoadLoop(_, _, _)
LoadLoop(st, files, error) ==
    IF files = <<>> THEN st
    ELSE LoadLoop(LoadStep(st, Head(files), error), Tail(files), error)

\* sorted(rules, key=lambda r: r.name)
RECURSIVE InsertRule(_, _)
InsertRule(s, rule_file) ==
    IF s = <<>> THEN <<rule_file>>
    ELSE IF RuleNameRank(RuleFiles[rule_file].name) < RuleNameRank(RuleFiles[Head(s)].name)
         THEN <<rule_file>> \o s
         ELSE <<Head(s)>> \o InsertRule(Tail(s), rule_file)
RECURSIVE SortedRules(_)
SortedRules(s) ==
    IF s = <<>> THEN <<>>
    ELSE InsertRule(SortedRules(SubSeq(s, 1, Len(s) - 1)), s[Len(s)])

\* load_rules(file_lookup, verbose, error): the exception raised or the
\* OrderedDict returned, as the list of its (rule.id, rule) items, and the
\* errors collected
load_rules(file_lookup, error) ==
    LET looped == LoadLoop([rules |-> <<>>, errors |-> <<>>, queries |-> <<>>,
                            query_check_index |-> <<>>, rule_ids |-> {},
                            rule_names |-> {}, failed |-> FALSE, raised |-> "none"],
                           file_lookup, error)
        sorted == SortedRules(looped.rules)
    IN  IF looped.raised # "none"
        THEN [raised |-> looped.raised, rules |-> <<>>, errors |-> looped.errors]
        ELSE [raised |-> "none",
              rules |-> [i \in 1..Len(sorted) |-> <<RuleFiles[sorted[i]].id, sorted[i]>>],
              errors |-> looped.errors]

\* the file_lookup mappings given: some of the files, in any order
FileLookups ==
    {fl \in UNION {[1..n -> DOMAIN RuleFiles] : n \in 1..MaxFiles} :
        \A i, j \in 1..Len(fl) : i # j => fl[i] # fl[j]}

InitLoad ==
    /\ PackagingIdle
    /\ dg = NoDowngrade
    /\ rc = NoCaches
    /\ ld \in [file_lookup : FileLookups, error : BOOLEAN, done : {FALSE},
               ret : {NoLoad.ret}]

\* a caller runs load_rules(file_lookup, error=error)
LoadRules ==
    /\ ~ld.done
    /\ ld' = [ld EXCEPT !.done = TRUE, !.ret = load_rules(ld.file_lookup, ld.error)]
    /\ UNCHANGED <<packaging, dg, rc>>

NextLoad == LoadRules

SpecLoad == InitLoad /\ [][NextLoad]_vars

\* --------------------------------------------------- rule_loader caches
\* the calls of loaders, changes of the sources and resets in a run
MaxCalls == 4

\* the functions reset() calls clear() of
ResetClears == {"load_rule_files", "load_rules", "get_rule", "filter_rules"}

\* reset(): clear() drops what the function memoized, for every argument
reset(memo) == [l \in Loaders |-> IF l \in ResetClears THEN Cleared ELSE memo[l]]

\* the memo of cached is keyed one way or the other
InitCache ==
    /\ PackagingIdle
    /\ dg = NoDowngrade
    /\ ld = NoLoad
    /\ \E k \in Keyings : rc = [NoCaches EXCEPT !.keyed = k]

\* a caller calls one of the cached loaders, the verbose argument left out,
\* True or False
CallLoader ==
    /\ rc.calls < MaxCalls
    /\ \E l \in Loaders : \E form \in FormsOf(l) :
        LET r == Cached(rc.memo, l, form, rc.keyed, rc.source, rc.resets, rules)
        IN  rc' = [rc EXCEPT !.memo = r.memo, !.calls = @ + 1,
                             !.last = [op |-> "load", loader |-> l, form |-> form,
                                       result |-> r.result]]
    /\ UNCHANGED <<packaging, dg, ld>>

\* the rule files, the release package and the GitHub release change
ChangeSource ==
    /\ rc.calls < MaxCalls
    /\ rc' = [rc EXCEPT !.source = @ + 1, !.calls = @ + 1,
                        !.last = [op |-> "change", loader |-> "", form |-> "",
                                  result |-> NotCached]]
    /\ UNCHANGED <<packaging, dg, ld>>

\* a caller calls reset()
Reset ==
    /\ rc.calls < MaxCalls
    /\ rc' = [rc EXCEPT !.memo = reset(@), !.resets = @ + 1, !.calls = @ + 1,
                        !.last = [op |-> "reset", loader |-> "", form |-> "",
                                  result |-> NotCached]]
    /\ UNCHANGED <<packaging, dg, ld>>

\* a function wrapped by mock_loader is called and returns or raises:
\* `finally: load_rules.clear()`
MockLoader ==
    /\ rc.calls < MaxCalls
    /\ rc' = [rc EXCEPT !.memo["load_rules"] = Cleared, !.calls = @ + 1,
                        !.last = [op |-> "mock_loader", loader |-> "", form |-> "",
                                  result |-> NotCached]]
    /\ UNCHANGED <<packaging, dg, ld>>

NextCache ==
    \/ CallLoader
    \/ ChangeSource
    \/ Reset
    \/ MockLoader

SpecCache == InitCache /\ [][NextCache]_vars

\* ------------------------------ manage_versions with current_versions
\* the calls with a mapping passed that a process makes
MaxGiven == 1

\* the mappings a caller passes as current_versions: no entry, or entries for
\* some of the rules with the hash of their content or of an earlier one
GivenLocks == {LoadDump(InitLockFile(m)) : m \in InitLocks}

\* a caller runs manage_versions(rules, current_versions=mapping, ...), as
\* Package._add_versions and Package.bump_versions do
ManageVersionsGiven ==
    /\ steps < MaxGiven
    /\ steps' = steps + 1
    /\ \E rs \in Working, f \in Flags, m \in GivenLocks :
        LET given == [given |-> TRUE, map |-> m]
            out == manage_versions(ListOf(rs), <<>>, given, f.exclude_version_update,
                                   f.add_new, f.save_changes, today) IN
        /\ rules' = out.rules
        /\ cache' = out.cache
        /\ lockFile' = out.lockFile
        /\ deprFile' = out.deprFile
        /\ changelogFile' = out.changelogFile
        /\ Called([NoCall EXCEPT !.op = "manage_versions", !.rules = ListOf(rs),
                                 !.current_versions = given,
                                 !.exclude_version_update = f.exclude_version_update,
                                 !.add_new = f.add_new,
                                 !.save_changes = f.save_changes],
                  out.pre_cv, out.ret, out.io)
    /\ UNCHANGED <<today, otherFile, dg, ld, rc>>

NextGiven == ManageVersionsGiven

SpecGiven == Init /\ [][NextGiven]_vars

\* ----------------------------------------------------------------- claims
\* vocabulary of the properties below
IsManageVersions == call.op = "manage_versions"
IsUpdateAndLock == call.op = "update_and_lock"
Listed == Range(call.rules)
HashNow(id) == get_hash(id, rules[id])
DiskLock == LoadDump(lockFile)
DiskDeprecations == LoadDump(deprFile)
Wrote(file) == [ev |-> "write", what |-> file] \in Range(io)
\* the rules of the last call the loaded lock had no entry for, an entry with
\* another hash, an entry with the same hash
NewIn(id) == id \in Listed /\ id \notin DOMAIN pre.cv
ChangedIn(id) ==
    id \in Listed /\ id \in DOMAIN pre.cv /\ HashNow(id) # pre.cv[id].sha256
UnchangedIn(id) ==
    id \in Listed /\ id \in DOMAIN pre.cv /\ HashNow(id) = pre.cv[id].sha256
Persisting == call.save_changes /\ call.add_new

\* C1, as stated: every rule whose id is absent from the existing lock is in
\* new_rules after manage_versions, has version 1, and the version lock (the
\* loaded mapping or the file) holds {version: 1, sha256: hash(R)} for it.
C1_Original ==
    IsManageVersions =>
        \A id \in RuleIds : NewIn(id) =>
            /\ id \in Range(ret.new_rules)
            /\ rules[id].version = 1
            /\ \/ /\ id \in DOMAIN cache.map
                  /\ cache.map[id].version = 1
                  /\ cache.map[id].sha256 = HashNow(id)
               \/ /\ id \in DOMAIN DiskLock
                  /\ DiskLock[id].version = 1
                  /\ DiskLock[id].sha256 = HashNow(id)

\* C1, amended: every rule whose id is absent from the loaded lock is put in
\* new_rules with the record {rule_name, version: 1, sha256: hash(R)} and gets
\* version 1; the version lock, in memory and on file, receives that record
\* exactly when save_changes and add_new are both set, and otherwise the call
\* adds no entry for the rule to it.
C1_NewRules ==
    IsManageVersions =>
        \A id \in RuleIds : NewIn(id) =>
            /\ id \in Range(ret.new_rules)
            /\ rules[id].version = 1
            /\ ret.new_entries[id] =
                   [rule_name |-> rules[id].name, version |-> 1, sha256 |-> HashNow(id)]
            /\ Persisting =>
                   /\ id \in DOMAIN cache.map /\ cache.map[id] = ret.new_entries[id]
                   /\ id \in DOMAIN DiskLock /\ DiskLock[id] = ret.new_entries[id]
            /\ ~Persisting =>
                   id \notin DOMAIN cache.map /\ id \notin DOMAIN DiskLock

C1_Witness ==
    /\ IsManageVersions /\ Persisting /\ ret.raised = "none"
    /\ \E id \in RuleIds :
        /\ NewIn(id)
        /\ pre.rules[id].version = 0 /\ rules[id].version = 1
        /\ id \in DOMAIN DiskLock /\ DiskLock[id].version = 1

\* C2: every rule whose id is in the loaded lock at version v with another
\* hash is put in changed_rules by manage_versions and gets version v + 1;
\* with save_changes the entry written to version.lock.json has
\* sha256 = hash(R).
C2_ChangedRules ==
    IsManageVersions =>
        \A id \in RuleIds : ChangedIn(id) =>
            /\ id \in Range(ret.changed_rules)
            /\ rules[id].version = pre.cv[id].version + 1
            /\ call.save_changes =>
                   /\ Wrote("version.lock.json")
                   /\ id \in DOMAIN DiskLock
                   /\ DiskLock[id].sha256 = HashNow(id)

C2_Witness ==
    /\ IsManageVersions /\ call.save_changes
    /\ \E id \in RuleIds :
        /\ ChangedIn(id)
        /\ rules[id].version = InitVersion + 1
        /\ id \in DOMAIN LoadDump(pre.lockFile)
        /\ LoadDump(pre.lockFile)[id].sha256 # HashNow(id)
        /\ DiskLock[id].sha256 = HashNow(id)

\* C3: every rule in the loaded lock with the locked hash gets the locked
\* version from manage_versions, is neither in changed_rules nor in new_rules,
\* and its lock entry (version, sha256, rule_name) is the one it was; the hash
\* equals the locked sha256 before and after.
C3_UnchangedRules ==
    IsManageVersions =>
        \A id \in RuleIds : UnchangedIn(id) =>
            /\ rules[id].version = pre.cv[id].version
            /\ id \notin Range(ret.changed_rules)
            /\ id \notin Range(ret.new_rules)
            /\ id \in DOMAIN cache.map /\ cache.map[id] = pre.cv[id]
            /\ get_hash(id, pre.rules[id]) = pre.cv[id].sha256
            /\ HashNow(id) = cache.map[id].sha256

C3_Witness ==
    /\ IsManageVersions
    /\ \E id \in RuleIds :
        /\ UnchangedIn(id)
        /\ pre.rules[id].version # pre.cv[id].version
        /\ rules[id].version = pre.cv[id].version
    /\ ret.changed_rules # <<>>

\* two manage_versions calls in a row on the same rules, the first one
\* without persistence
TwiceInARow ==
    /\ IsManageVersions
    /\ prev.call.op = "manage_versions"
    /\ prev.call.rules = call.rules
    /\ ~prev.call.save_changes

\* C4: after the second of two manage_versions calls in a row on the same
\* rules, with no persistence in between, the version of every rule and of
\* every lock entry is at most the originally locked version + 1.
C4_NoDoubleIncrement ==
    TwiceInARow =>
        \A id \in Listed : id \in DOMAIN prev.pre.cv =>
            /\ rules[id].version <= prev.pre.cv[id].version + 1
            /\ cache.map[id].version <= prev.pre.cv[id].version + 1
            /\ id \in DOMAIN DiskLock =>
                   DiskLock[id].version <= prev.pre.cv[id].version + 1

C4_Witness ==
    /\ TwiceInARow
    /\ ~call.exclude_version_update /\ ~prev.call.exclude_version_update
    /\ \E id \in Listed :
        /\ id \in Range(prev.ret.changed_rules)
        /\ rules[id].version = prev.pre.cv[id].version + 1
        /\ cache.map[id].version = prev.pre.cv[id].version + 1

\* C5: the second of two manage_versions runs on the same rules with the same
\* settings and no lock write in between classifies as the first one did
\* (changed, new, newly deprecated) and gives every rule the same version.
C5_SameClassification ==
    (/\ TwiceInARow
     /\ ~call.save_changes
     /\ prev.call.deprecated_rules = call.deprecated_rules
     /\ prev.call.exclude_version_update = call.exclude_version_update
     /\ prev.call.add_new = call.add_new) =>
        /\ ret.changed_rules = prev.ret.changed_rules
        /\ ret.new_rules = prev.ret.new_rules
        /\ ret.newly_deprecated = prev.ret.newly_deprecated
        /\ \A id \in Listed : rules[id].version = pre.rules[id].version

\* C6: with exclude_version_update a rule whose hash differs from its lock
\* entry of version v gets version v + 1 in memory while the version stored
\* in the lock entry stays v, also in the file when the lock is written.
C6_FrozenVersion ==
    (IsManageVersions /\ call.exclude_version_update) =>
        \A id \in RuleIds : ChangedIn(id) =>
            /\ rules[id].version = pre.cv[id].version + 1
            /\ cache.map[id].version = pre.cv[id].version
            /\ Wrote("version.lock.json") => DiskLock[id].version = pre.cv[id].version

C6_Witness ==
    /\ IsManageVersions /\ call.exclude_version_update /\ Wrote("version.lock.json")
    /\ \E id \in RuleIds :
        /\ ChangedIn(id)
        /\ rules[id].version = InitVersion + 1
        /\ DiskLock[id].version = InitVersion
        /\ DiskLock[id].sha256 = HashNow(id)

\* the items of deprecated_rules.json for a rule
DeprecationItems(file, id) == {i \in 1..Len(file) : file[i][1] = id}

\* C7: a rule already in the deprecation registry is never reported newly
\* deprecated by manage_versions, keeps its single entry and its
\* deprecation_date; a rule of deprecated_rules absent from the registry is
\* reported newly deprecated and gets the one entry {rule_name,
\* deprecation_date: today, stack_version: current}, written to the registry
\* file when save_changes is set.
C7_DeprecationAppendOnly ==
    IsManageVersions =>
        /\ \A id \in DOMAIN LoadDump(pre.deprFile) :
            /\ id \notin Range(ret.newly_deprecated)
            /\ Cardinality(DeprecationItems(deprFile, id)) = 1
            /\ DiskDeprecations[id] = LoadDump(pre.deprFile)[id]
            /\ id \in Range(call.deprecated_rules) =>
                   ret.rule_deprecations[id] = LoadDump(pre.deprFile)[id]
        /\ \A id \in Range(call.deprecated_rules) :
            id \notin DOMAIN LoadDump(pre.deprFile) =>
                /\ id \in Range(ret.newly_deprecated)
                /\ ret.rule_deprecations[id] =
                       [rule_name |-> rules[id].name,
                        deprecation_date |-> Days[today],
                        stack_version |-> STACK_VERSION]
                /\ call.save_changes =>
                       /\ Cardinality(DeprecationItems(deprFile, id)) = 1
                       /\ DiskDeprecations[id] = ret.rule_deprecations[id]
                /\ ~call.save_changes => id \notin DOMAIN DiskDeprecations

C7_Witness ==
    /\ IsManageVersions
    /\ \E id \in Range(call.deprecated_rules) :
        /\ id \in DOMAIN LoadDump(pre.deprFile)
        /\ DiskDeprecations[id].deprecation_date # Days[today]
        /\ prev.call.op = "manage_versions"
        /\ id \in Range(prev.ret.newly_deprecated)

\* update_and_lock ran to commit (not as a dry run), called directly or by
\* manage_versions, and the file it was to save
Committing ==
    \/ IsUpdateAndLock /\ ~call.dry_run
    \/ IsManageVersions /\ [ev |-> "call", what |-> "update_and_lock"] \in Range(io)
CommitPath == IF IsManageVersions THEN CHANGELOG_FILE ELSE call.save_path
\* some rule of the call is missing from version.lock.json or has another hash
NotReconciled ==
    \E id \in Listed : id \notin DOMAIN DiskLock \/ HashNow(id) # DiskLock[id].sha256
NoChangelogWritten ==
    /\ ~Wrote(CHANGELOG_FILE) /\ ~Wrote(OTHER_FILE)
    /\ changelogFile = pre.changelogFile
    /\ otherFile = pre.otherFile

\* C8, as stated: the non-dry-run update_and_lock on rules of which one has a
\* hash other than its version-lock entry, or no entry, fails and writes no
\* changelog file.
C8_Original ==
    (Committing /\ NotReconciled) =>
        ret.raised = "AssertionError" /\ NoChangelogWritten

\* C8, amended: the non-dry-run update_and_lock that is to save the primary
\* changelog (save_path == CHANGELOG_FILE) on rules of which one has a hash
\* other than its version-lock entry, or no entry, fails and writes no
\* changelog file.
C8_LockPrecondition ==
    (Committing /\ CommitPath = CHANGELOG_FILE /\ NotReconciled) =>
        ret.raised = "AssertionError" /\ NoChangelogWritten

C8_Witness ==
    /\ IsUpdateAndLock /\ ~call.dry_run /\ call.save_path = CHANGELOG_FILE
    /\ \E id \in Listed : id \in DOMAIN DiskLock /\ HashNow(id) # DiskLock[id].sha256
    /\ \E id \in Listed : [ev |-> "save_rule", what |-> id] \in Range(io)
    /\ ret.raised = "AssertionError"
    /\ ret.changelog # changelogFile

\* the rules for which the last call recorded an entry in rules-changelog.json
Recorded ==
    {id \in DOMAIN changelogFile :
        id \notin DOMAIN pre.changelogFile \/ changelogFile[id] # pre.changelogFile[id]}

\* C9: in a manage_versions run with save_changes, update_and_lock is called
\* after version.lock.json has been written, and when rules-changelog.json is
\* written every rule with an entry recorded in that write has the hash the
\* version.lock.json file holds for it.
C9_ChangelogAfterLock ==
    (IsManageVersions /\ call.save_changes) =>
        /\ \A i, j \in 1..Len(io) :
            (/\ io[i] = [ev |-> "call", what |-> "update_and_lock"]
             /\ io[j].ev = "write"
             /\ io[j].what \in {"version.lock.json", "deprecated_rules.json"}) => j < i
        /\ \A i, j \in 1..Len(io) :
            (/\ io[i] = [ev |-> "call", what |-> "update_and_lock"]
             /\ io[j] = [ev |-> "write", what |-> CHANGELOG_FILE]) => i < j
        /\ Wrote(CHANGELOG_FILE) =>
            \A id \in Recorded :
                id \in DOMAIN DiskLock /\ HashNow(id) = DiskLock[id].sha256

C9_Witness ==
    /\ IsManageVersions /\ call.save_changes
    /\ Wrote("version.lock.json") /\ Wrote(CHANGELOG_FILE)
    /\ \E id \in Recorded :
        /\ id \in DOMAIN LoadDump(pre.lockFile)
        /\ LoadDump(pre.lockFile)[id].sha256 # HashNow(id)
        /\ DiskLock[id].sha256 = HashNow(id)

\* update_and_lock went through its loop over the rules
Migrated ==
    /\ \/ IsUpdateAndLock
       \/ IsManageVersions /\ [ev |-> "call", what |-> "update_and_lock"] \in Range(io)
    /\ ret.raised # "TypeError"
\* the local notes a rule had when the call started, and those that are no
\* sentinel
PendingNotes(id) ==
    IF pre.rules[id].has_changelog THEN pre.rules[id].changelog ELSE <<>>
Substantive(id) ==
    SelectSeq(PendingNotes(id),
              LAMBDA c : c \notin {"_version_locked_", "_rule_created_"})
GlobalBefore(id) ==
    IF id \in DOMAIN pre.changelogFile THEN pre.changelogFile[id] ELSE <<>>

\* C10: update_and_lock appends, for each of its rules with at least one
\* pending note other than '_version_locked_' and '_rule_created_', exactly
\* one entry {changes: those notes in order, minimum_kibana_version,
\* rule_version: the rule's version} at the end of the rule's list in the
\* global changelog, appends nothing for any other rule, and leaves the
\* entries there were as they are.
C10_OneEntryPerRule ==
    Migrated =>
        /\ \A id \in RuleIds :
            IF id \in Listed /\ Substantive(id) # <<>>
            THEN /\ id \in DOMAIN ret.changelog
                 /\ ret.changelog[id] =
                        Append(GlobalBefore(id),
                               [changes |-> Substantive(id),
                                minimum_kibana_version |-> MinKibana,
                                rule_version |-> rules[id].version])
            ELSE /\ id \in DOMAIN ret.changelog <=> id \in DOMAIN pre.changelogFile
                 /\ id \in DOMAIN ret.changelog =>
                        ret.changelog[id] = pre.changelogFile[id]
        /\ Wrote(CHANGELOG_FILE) => changelogFile = ret.changelog
        /\ Wrote(OTHER_FILE) => otherFile = ret.changelog

C10_Witness ==
    /\ IsUpdateAndLock /\ Wrote(CHANGELOG_FILE)
    /\ \E id \in Listed :
        /\ Len(PendingNotes(id)) = 3
        /\ Substantive(id) = <<ARBITRARY, DEPRECATED>>
        /\ Len(changelogFile[id]) = 2
        /\ changelogFile[id][2].changes = <<ARBITRARY, DEPRECATED>>
    /\ \E id \in Listed : Substantive(id) = <<>> /\ id \notin DOMAIN changelogFile

\* the entries of a rule's local log, none when the rule has no log
LocalLog(rule) == IF rule.has_changelog THEN rule.changelog ELSE <<>>
\* the notes of a log that are none of the default_changes of line 213
NotesOf(log) ==
    SelectSeq(log, LAMBDA c : c \notin {"_version_locked_", "_rule_created_"})

\* C11: after an update_and_lock that is no dry run, each of its rules that
\* had a pending note other than '_version_locked_' and '_rule_created_' has
\* a new local log: exactly one '_version_locked_' when the rule is not
\* deprecated, no entry at all when it is deprecated.
C11_ClearedAndReseeded ==
    Committing =>
        \A id \in Listed :
            Substantive(id) # <<>> =>
                IF rules[id].maturity # "deprecated"
                THEN rules[id].has_changelog /\ rules[id].changelog = <<VERSION_LOCKED>>
                ELSE LocalLog(rules[id]) = <<>>

C11_Witness ==
    /\ Committing
    /\ \E id \in Listed :
        /\ rules[id].maturity = "deprecated"
        /\ DEPRECATED \in Range(Substantive(id))
        /\ LocalLog(rules[id]) = <<>>
    /\ \E id \in Listed :
        /\ rules[id].maturity # "deprecated"
        /\ Substantive(id) = <<ARBITRARY>>
        /\ rules[id].changelog = <<VERSION_LOCKED>>

\* C12, as stated: update_and_lock leaves the local log of each of its rules
\* without a pending note other than the sentinels (a log of sentinels only,
\* an empty log, no log) as it was before the call, and adds no entry for the
\* rule to the global changelog.
C12_LocalLogUntouched ==
    (IsUpdateAndLock \/ Committing) =>
        \A id \in Listed :
            Substantive(id) = <<>> =>
                /\ rules[id].has_changelog = pre.rules[id].has_changelog
                /\ rules[id].changelog = pre.rules[id].changelog
                /\ id \in DOMAIN ret.changelog <=> id \in DOMAIN pre.changelogFile
                /\ id \in DOMAIN ret.changelog =>
                        ret.changelog[id] = pre.changelogFile[id]

\* what the call that is no dry run computes on the rules and the changelog
\* the last call found
CommitOnSame ==
    ChangelogLoop([rules |-> pre.rules, changelog |-> pre.changelogFile,
                   io |-> <<>>, raised |-> "none"], call.rules, FALSE)

\* C13, as stated: update_and_lock with dry_run=True computes the global
\* changelog the call without dry_run computes on the same rules, whether or
\* not they have a local changelog, writes no file, saves no rule and leaves
\* every local log as it was.
C13_DryRunSameChangelog ==
    (IsUpdateAndLock /\ call.dry_run) =>
        /\ ret.raised = "none"
        /\ ret.changelog = CommitOnSame.changelog
        /\ io = <<>>
        /\ rules = pre.rules
        /\ changelogFile = pre.changelogFile
        /\ otherFile = pre.otherFile
        /\ lockFile = pre.lockFile

\* update_and_lock ran with no dry_run and returned
Drained == Committing /\ ret.raised = "none"
\* the entries of the global changelog a call computed for a rule
GlobalAfter(id) == IF id \in DOMAIN ret.changelog THEN ret.changelog[id] ELSE <<>>

\* C14: once an update_and_lock that is no dry run has returned, none of its
\* rules has a pending note other than a sentinel, and an update_and_lock on a
\* rule without such a note adds no entry for it and leaves it without such a
\* note: until a note is appended no further call adds an entry for the rule.
C14_DrainedOnce ==
    /\ Drained => \A id \in Listed : NotesOf(LocalLog(rules[id])) = <<>>
    /\ Migrated =>
        \A id \in Listed :
            Substantive(id) = <<>> =>
                /\ GlobalAfter(id) = GlobalBefore(id)
                /\ NotesOf(LocalLog(rules[id])) = <<>>

\* two calls in a row on a rule with a note: the first records it, the second
\* adds nothing
C14_Witness ==
    /\ prev.call.op \in {"update_and_lock", "manage_versions"}
    /\ prev.ret.raised = "none"
    /\ Drained
    /\ \E id \in Listed \cap Range(prev.call.rules) :
        /\ id \in DOMAIN prev.pre.rules
        /\ NotesOf(LocalLog(prev.pre.rules[id])) # <<>>
        /\ pre.changelogFile # prev.pre.changelogFile
        /\ id \in DOMAIN pre.changelogFile
        /\ Len(pre.changelogFile[id]) > 0
        /\ pre.changelogFile[id][Len(pre.changelogFile[id])].changes =
                NotesOf(LocalLog(prev.pre.rules[id]))
        /\ GlobalAfter(id) = pre.changelogFile[id]

\* the Rule objects a versions_locked call checks: those given or, when the
\* list given is empty or left out, those load_rules(verbose=False) hands out,
\* memoized at its first call
IsVersionsLocked == call.op = "versions_locked"
CheckedRules == IF call.rules # <<>> THEN rules ELSE ProductionRules(rc)
Checked ==
    IF call.rules # <<>> THEN Range(call.rules)
    ELSE Range(get_production_rules(CheckedRules))
\* the rule checked is in the version.lock.json file with the hash it has
CheckedOnDisk(id) ==
    id \in DOMAIN DiskLock /\ DiskLock[id].sha256 = get_hash(id, CheckedRules[id])
\* the rule is in the version.lock.json file with the hash it has now
LockedOnDisk(id) == id \in DOMAIN DiskLock /\ DiskLock[id].sha256 = HashNow(id)

\* C19: versions_locked(rules) raises nothing and returns a boolean: False
\* when one of the rules it checks is missing from version.lock.json or has
\* another hash than the sha256 there, True when each of them is in the file
\* with its hash (the file as it is on disk, whatever load_versions() has
\* memoized). The rules it checks are the Rule objects given or, with none
\* given, those load_rules hands out.
C19_LockedIffOnDisk ==
    IsVersionsLocked =>
        /\ ret.raised = "none"
        /\ io \in {<<Returned(TRUE)>>, <<Returned(FALSE)>>}
        /\ io = <<Returned(TRUE)>> <=> \A id \in Checked : CheckedOnDisk(id)

\* no rules given: the call checks the rules load_rules memoized at an earlier
\* call and finds each in the file with its hash, one of them edited since
C19_Witness ==
    /\ IsVersionsLocked
    /\ call.rules = <<>>
    /\ io = <<Returned(TRUE)>>
    /\ Checked = RuleIds
    /\ \E id \in Checked :
            /\ CheckedRules[id].body # rules[id].body
            /\ DiskLock[id].sha256 # HashNow(id)

\* the payload the i-th call of downgrade was given, the target truncated to
\* (major, minor), and the place in all_schemas of the schema with that version
GivenTo(i) == IF i = 1 THEN dg.api_contents ELSE dg.calls[i - 1].api_contents
ResolvedTarget == Truncated(Version(dg.target_version))
Registered == \E t \in DOMAIN all_schemas : Version(all_schemas[t]) = ResolvedTarget
TargetIndex == CHOOSE t \in DOMAIN all_schemas : Version(all_schemas[t]) = ResolvedTarget

\* C15: downgrade to a target whose (major, minor) is the version of no schema
\* of all_schemas raises ValueError with no single step made and no payload
\* returned; to a target that is the version of one it does not raise it.
C15_UnknownTargetRaises ==
    \A i \in 1..Len(dg.calls) :
        IF Registered
        THEN dg.calls[i].raised # "ValueError"
        ELSE /\ dg.calls[i].raised = "ValueError"
             /\ dg.calls[i].trace = <<>>
             /\ dg.calls[i].api_contents = NoPayload

C15_Witness ==
    /\ Len(dg.calls) = 1
    /\ dg.target_version = "99.99"
    /\ dg.api_contents.fields # {}
    /\ dg.calls[1].raised = "ValueError"
    /\ dg.calls[1].trace = <<>>

\* C16: a downgrade that returns, to the target at place t of the n schemas
\* (t = 1 the oldest), has made n - t single steps: the k-th from the schema
\* at place n - k + 1 to the one at n - k, on the payload the step before it
\* returned (the first on the payload given), with the "type" of the payload
\* given as role; it returns what the last step returned, and the payload
\* given when t = n.
C16_ChainWalk ==
    \A i \in 1..Len(dg.calls) :
        LET c == dg.calls[i]
            n == Len(all_schemas)
        IN  (Registered /\ c.raised = "none") =>
                /\ Len(c.trace) = n - TargetIndex
                /\ \A k \in 1..Len(c.trace) :
                    /\ c.trace[k].from.index = n - k + 1
                    /\ c.trace[k].to.index = n - k
                    /\ c.trace[k].to.index >= TargetIndex
                    /\ c.trace[k].role = GivenTo(i).type
                    /\ c.trace[k].given = IF k = 1 THEN GivenTo(i)
                                          ELSE c.trace[k - 1].out
                /\ c.api_contents = IF c.trace = <<>> THEN GivenTo(i)
                                    ELSE c.trace[Len(c.trace)].out

C16_Witness ==
    /\ Len(dg.calls) = 1
    /\ dg.target_version = "7.9.2"
    /\ dg.api_contents.type = "threshold"
    /\ dg.api_contents.fields = {"7.8", "7.9", "7.12", "7.13"}
    /\ Len(dg.calls[1].trace) = 4
    /\ dg.calls[1].trace[2].given.fields = {"7.8", "7.9", "7.12"}
    /\ dg.calls[1].api_contents.fields = {"7.8", "7.9"}

\* the file at place j of file_lookup has the rule_id or the name of the one
\* at place i before it
Repeating(i, j) ==
    /\ i < j
    /\ \/ RuleFiles[ld.file_lookup[i]].id = RuleFiles[ld.file_lookup[j]].id
       \/ RuleFiles[ld.file_lookup[i]].name = RuleFiles[ld.file_lookup[j]].name
Repeats ==
    {j \in 1..Len(ld.file_lookup) : \E i \in 1..Len(ld.file_lookup) : Repeating(i, j)}
LoadedFiles == {ld.ret.rules[i][2] : i \in 1..Len(ld.ret.rules)}

\* C18, as stated: a load_rules that meets two rules with the same rule_id or
\* the same name raises and returns no mapping, whatever the error flag.
C18_Original ==
    (ld.done /\ Repeats # {}) =>
        /\ ld.ret.raised # "none"
        /\ ld.ret.rules = <<>>

\* C18, amended: with error=True (the default) a load_rules that meets two
\* rules with the same rule_id or the same name raises and returns no
\* mapping; with error=False it raises nothing and returns a mapping: of two
\* such rules the mapping never has both, and when it has the first the
\* second is left out with a duplicate ID or duplicate name error collected.
C18_FatalUnlessErrorOff ==
    (ld.done /\ Repeats # {}) =>
        IF ld.error
        THEN /\ ld.ret.raised # "none"
             /\ ld.ret.rules = <<>>
        ELSE /\ ld.ret.raised = "none"
             /\ \A i, j \in 1..Len(ld.file_lookup) :
                    (Repeating(i, j) /\ ld.file_lookup[i] \in LoadedFiles) =>
                        /\ ld.file_lookup[j] \notin LoadedFiles
                        /\ \E k \in 1..Len(ld.ret.errors) :
                            /\ ld.ret.errors[k].file = ld.file_lookup[j]
                            /\ ld.ret.errors[k].what \in
                                    {"duplicate ID", "duplicate name"}

C18_Witness ==
    /\ ld.done /\ ld.error
    /\ ld.file_lookup = <<"b.toml", "a.toml", "z.toml">>
    /\ ld.ret.raised = "KeyError"
    /\ ld.ret.rules = <<>>
    /\ Len(ld.ret.errors) = 1
    /\ ld.ret.errors[1] = [file |-> "z.toml", what |-> "duplicate name",
                           existing |-> "a.toml"]

\* the items version.lock.json holds for a rule
LockItems(file, id) == {i \in 1..Len(file) : file[i][1] = id}
\* every rule that was in the version lock, file and memoized mapping, is
\* still in it, and the file has no rule twice
NothingDeleted ==
    /\ \A id \in DOMAIN LoadDump(pre.lockFile) : Cardinality(LockItems(lockFile, id)) = 1
    /\ \A id \in RuleIds : Cardinality(LockItems(lockFile, id)) <= 1
    /\ DOMAIN pre.cv \subseteq DOMAIN cache.map

\* C20, as stated: after a manage_versions call every rule_id that was in the
\* version lock is still in it, and every rule_id the call was given, when it
\* saves its changes, has exactly one entry in version.lock.json.
C20_Original ==
    IsManageVersions =>
        /\ NothingDeleted
        /\ call.save_changes =>
            \A id \in Listed : Cardinality(LockItems(lockFile, id)) = 1

\* C20, amended: after a manage_versions call on the lock load_versions()
\* hands out, every rule_id that was in the version lock is still in it,
\* whatever the flags and the rules given, and every rule_id among the rules
\* of a call with save_changes and add_new has exactly one entry in
\* version.lock.json.
C20_NeverDeleted ==
    IsManageVersions =>
        /\ NothingDeleted
        /\ Persisting =>
            \A id \in Listed : Cardinality(LockItems(lockFile, id)) = 1

C20_Witness ==
    /\ IsManageVersions /\ Persisting
    /\ Wrote("version.lock.json")
    /\ \E id \in Listed : id \notin DOMAIN LoadDump(pre.lockFile) /\ id \in DOMAIN DiskLock
    /\ \E id \in RuleIds \ Listed :
        /\ rules[id].maturity = "deprecated"
        /\ id \in DOMAIN LoadDump(pre.lockFile)
        /\ id \in DOMAIN DiskLock
        /\ DiskLock[id] = LoadDump(pre.lockFile)[id]

\* the version the lock held for a rule when the call started, in the mapping
\* load_versions() handed out and in version.lock.json; 0: no entry
LockedVersionBefore(id) == IF id \in DOMAIN pre.cv THEN pre.cv[id].version ELSE 0
DiskVersionBefore(id) ==
    IF id \in DOMAIN LoadDump(pre.lockFile) THEN LoadDump(pre.lockFile)[id].version ELSE 0

\* C21, as stated: manage_versions gives a rule that is not in the lock the
\* version 1, in rule.contents['version'] and in the entry it makes, and
\* afterwards neither the version it assigns to the rule nor the version of
\* the rule's lock entry is ever lower than the one before.
C21_VersionMonotonic ==
    IsManageVersions =>
        \A id \in Listed :
            /\ NewIn(id) =>
                /\ rules[id].version = 1
                /\ id \in DOMAIN ret.new_entries /\ ret.new_entries[id].version = 1
            /\ rules[id].version >= pre.rules[id].version
            /\ id \in DOMAIN cache.map => cache.map[id].version >= LockedVersionBefore(id)
            /\ id \in DOMAIN DiskLock => DiskLock[id].version >= DiskVersionBefore(id)

\* C22: a manage_versions call with save_changes=False writes none of
\* version.lock.json, deprecated_rules.json and rules-changelog.json, does
\* not call update_and_lock, saves no rule and leaves every rule's local
\* changelog as it was; it returns.
C22_NothingPersisted ==
    (IsManageVersions /\ ~call.save_changes) =>
        /\ io = <<>>
        /\ ret.raised = "none"
        /\ lockFile = pre.lockFile
        /\ deprFile = pre.deprFile
        /\ changelogFile = pre.changelogFile
        /\ otherFile = pre.otherFile
        /\ \A id \in RuleIds :
            /\ rules[id].has_changelog = pre.rules[id].has_changelog
            /\ rules[id].changelog = pre.rules[id].changelog

\* a call with save_changes=False that found a changed rule with a note and
\* a newly deprecated rule: the memoized lock and the rule's version changed
C22_Witness ==
    /\ IsManageVersions /\ ~call.save_changes
    /\ ret.newly_deprecated # <<>>
    /\ \E id \in Listed :
        /\ id \in Range(ret.changed_rules)
        /\ Substantive(id) # <<>>
        /\ rules[id].version # pre.rules[id].version
        /\ id \in DOMAIN DiskLock
        /\ cache.map[id] # DiskLock[id]

\* none of the three files is other than the call found it
NoLedgerChanged ==
    /\ lockFile = pre.lockFile
    /\ deprFile = pre.deprFile
    /\ changelogFile = pre.changelogFile
\* the three files hold what the call computed: the lock entries of the rules
\* it found changed or new, the deprecations it found, and its changelog
AllLedgersReflect ==
    /\ \A id \in Range(ret.changed_rules) \cup
                 (IF call.add_new THEN Range(ret.new_rules) ELSE {}) :
            id \in DOMAIN DiskLock /\ DiskLock[id].sha256 = HashNow(id)
    /\ \A id \in Range(ret.newly_deprecated) : id \in DOMAIN DiskDeprecations
    /\ changelogFile = ret.changelog

\* C23, as stated: after a manage_versions call with save_changes=True,
\* returned or failed, either version.lock.json, deprecated_rules.json and
\* rules-changelog.json all hold what the call computed or none of them was
\* changed.
C23_AtomicCommit ==
    (IsManageVersions /\ call.save_changes) =>
        \/ NoLedgerChanged
        \/ ret.raised = "none" /\ AllLedgersReflect

\* the items of a file are in the order of their rule_name, no rule twice
OrderedByName(file) ==
    \A i, j \in 1..Len(file) :
        i < j => /\ NameRank(file[i][2].rule_name) <= NameRank(file[j][2].rule_name)
                 /\ file[i][1] # file[j][1]

\* C24: a manage_versions call writes version.lock.json exactly when it saves
\* changes and found changed rules, or new rules with add_new, and
\* deprecated_rules.json exactly when it saves changes and found newly
\* deprecated rules; version.lock.json as written holds every entry of the
\* lock, those there were and those of the call, deprecated_rules.json every
\* deprecation, those of the file and the new ones, each file in the order of
\* rule_name.
C24_SortedSnapshots ==
    IsManageVersions =>
        /\ Wrote("version.lock.json") <=>
                /\ call.save_changes
                /\ \/ ret.changed_rules # <<>>
                   \/ ret.new_rules # <<>> /\ call.add_new
        /\ Wrote("deprecated_rules.json") <=>
                call.save_changes /\ ret.newly_deprecated # <<>>
        /\ Wrote("version.lock.json") =>
                /\ OrderedByName(lockFile)
                /\ DiskLock = cache.map
                /\ DOMAIN DiskLock =
                        DOMAIN pre.cv \cup (IF call.add_new THEN Range(ret.new_rules) ELSE {})
                /\ DOMAIN LoadDump(pre.lockFile) \subseteq DOMAIN DiskLock
        /\ Wrote("deprecated_rules.json") =>
                /\ OrderedByName(deprFile)
                /\ DiskDeprecations = ret.rule_deprecations
                /\ DOMAIN DiskDeprecations =
                        DOMAIN LoadDump(pre.deprFile) \cup Range(ret.newly_deprecated)
                /\ \A id \in DOMAIN LoadDump(pre.deprFile) :
                        DiskDeprecations[id] = LoadDump(pre.deprFile)[id]

\* both files written by one call, the lock with a new entry that sorts
\* behind the one there was
C24_Witness ==
    /\ IsManageVersions
    /\ Wrote("version.lock.json") /\ Wrote("deprecated_rules.json")
    /\ Len(lockFile) = 2 /\ Len(pre.lockFile) = 1
    /\ lockFile[1][1] = "b2" /\ lockFile[2][1] = "a1"
    /\ "a1" \in Range(ret.new_rules)
    /\ Len(deprFile) = 1

\* C25, as stated: every manage_versions call returns, with save_changes or
\* without, the ids of the changed rules, of the new rules and of the newly
\* deprecated rules.
C25_AlwaysReturns ==
    IsManageVersions =>
        /\ ret.raised = "none"
        /\ \A id \in Listed :
                /\ id \in Range(ret.changed_rules) <=> ChangedIn(id)
                /\ id \in Range(ret.new_rules) <=> NewIn(id)

\* a manage_versions call that saves changes, and the number of entries it
\* added to a rule's list in rules-changelog.json
Release == IsManageVersions /\ call.save_changes
DiskLog(file, id) == IF id \in DOMAIN file THEN file[id] ELSE <<>>
Growth(id) == Len(DiskLog(changelogFile, id)) - Len(DiskLog(pre.changelogFile, id))

\* C26, as stated: in a manage_versions call with save_changes a rule's list
\* in the global changelog grows by one entry when the rule's hash differs
\* from the lock's, and by none when it does not.
C26_Original ==
    (Release /\ ret.raised = "none") =>
        \A id \in Listed : Growth(id) = IF ChangedIn(id) THEN 1 ELSE 0

\* C26, amended: in a manage_versions call with save_changes a rule's list in
\* the global changelog grows by exactly one entry, at its end, when the call
\* writes rules-changelog.json and the rule, one of the rules given, had a
\* pending note other than
\* '_version_locked_' and '_rule_created_', and by none otherwise, whether or
\* not the rule's hash changed.
C26_OnePerNotedRelease ==
    Release =>
        \A id \in RuleIds :
            /\ Growth(id) =
                    IF Wrote(CHANGELOG_FILE) /\ id \in Listed /\ Substantive(id) # <<>>
                    THEN 1 ELSE 0
            /\ SubSeq(DiskLog(changelogFile, id), 1, Len(DiskLog(pre.changelogFile, id)))
                    = DiskLog(pre.changelogFile, id)

\* a release adds a second entry for a rule whose hash did not change, and
\* none for a rule whose hash changed
C26_Witness ==
    /\ Release /\ Wrote(CHANGELOG_FILE)
    /\ \E id \in Listed :
        /\ UnchangedIn(id) /\ Growth(id) = 1
        /\ Len(DiskLog(pre.changelogFile, id)) = 1
    /\ \E id \in Listed : ChangedIn(id) /\ Growth(id) = 0

\* the last entry of a rule's list in rules-changelog.json cites the version
\* version.lock.json holds for the rule
CitesLockedVersion(id) ==
    /\ id \in DOMAIN DiskLock
    /\ changelogFile[id][Len(changelogFile[id])].rule_version = DiskLock[id].version

\* C27, as stated, for the update_and_lock of a manage_versions run: when it
\* writes rules-changelog.json, every entry recorded in that write has the
\* rule_version that version.lock.json holds for the rule, also when the run
\* has exclude_version_update.
C27_DurableVersion ==
    (IsManageVersions /\ Committing /\ Wrote(CHANGELOG_FILE)) =>
        \A id \in Recorded : CitesLockedVersion(id)

\* C28: in every single step of a downgrade the schema stepped from and the
\* schema stepped to are both the versioned() variant when the payload given
\* to downgrade has a "version", and both the schema as registered when it
\* has none, from the first step to the last.
C28_VariantFixedByInput ==
    \A i \in 1..Len(dg.calls) :
        \A k \in 1..Len(dg.calls[i].trace) :
            /\ dg.calls[i].trace[k].from.versioned = GivenTo(i).has_version
            /\ dg.calls[i].trace[k].to.versioned = GivenTo(i).has_version
            /\ dg.calls[i].trace[k].from.index = Len(all_schemas) - k + 1

\* a payload with a "version" walked down more than one step
C28_Witness ==
    /\ Len(dg.calls) = 1
    /\ dg.api_contents.has_version
    /\ Len(dg.calls[1].trace) >= 3
    /\ dg.calls[1].raised = "none"
    /\ \A k \in 1..Len(dg.calls[1].trace) :
            dg.calls[1].trace[k].from.versioned /\ dg.calls[1].trace[k].to.versioned

\* C29, as stated: a cached loader of rule_loader.py called after a reset()
\* returns a result that was read after that reset(), none that was memoized
\* before it.
C29_ResetClearsAll ==
    rc.last.op = "load" => rc.last.result.epoch = rc.resets

\* C30, as stated: once a manage_versions call with save_changes and add_new
\* has returned, version.lock.json holds every rule of the call with the hash
\* the rule has, whatever calls came before it.
C30_ReconciledOnDisk ==
    (IsManageVersions /\ Persisting /\ ret.raised = "none") =>
        \A id \in Listed : LockedOnDisk(id)

\* the call saved the file of a rule
SavedRule(id) == [ev |-> "save_rule", what |-> id] \in Range(io)

\* C31, as stated: when an update_and_lock that is no dry run fails the
\* assertion that the rule versions are locked, every rule of the call has the
\* local changelog it had before the call and no rule file was saved.
C31_UnchangedOnFailure ==
    (IsUpdateAndLock /\ ~call.dry_run /\ ret.raised = "AssertionError") =>
        \A id \in Listed :
            /\ LocalLog(rules[id]) = LocalLog(pre.rules[id])
            /\ ~SavedRule(id)

\* the last two calls were manage_versions, the first with
\* exclude_version_update, the second without, no edit in between; and the
\* rules the first of them found changed
Unfrozen ==
    /\ IsManageVersions /\ ~call.exclude_version_update
    /\ prev.call.op = "manage_versions" /\ prev.call.exclude_version_update
FrozenBump(id) ==
    /\ id \in Range(prev.call.rules) /\ id \in Listed
    /\ id \in DOMAIN prev.pre.cv
    /\ get_hash(id, prev.pre.rules[id]) # prev.pre.cv[id].sha256

\* C32, as stated: a rule that manage_versions with exclude_version_update
\* found changed at locked version v has version v + 1 in the lock after a
\* later manage_versions without exclude_version_update on the same content.
C32_FrozenBumpKept ==
    Unfrozen =>
        \A id \in RuleIds :
            FrozenBump(id) =>
                /\ id \in DOMAIN cache.map
                /\ cache.map[id].version = prev.pre.cv[id].version + 1

\* no element twice in a list
NoRepeats(list) == \A i, j \in 1..Len(list) : i # j => list[i] # list[j]

\* C33: manage_versions on rules with unique ids puts each of them in exactly
\* one class: new_rules and changed_rules have no id twice and none in common
\* and hold ids of the rules given only; a rule is in new_rules exactly when
\* the lock the call loaded had no entry for its id, in changed_rules exactly
\* when it had one with another sha256, and in neither (unchanged) exactly
\* when it had one with the rule's sha256.
C33_Classification ==
    IsManageVersions =>
        /\ NoRepeats(ret.new_rules) /\ NoRepeats(ret.changed_rules)
        /\ Range(ret.new_rules) \cap Range(ret.changed_rules) = {}
        /\ Range(ret.new_rules) \cup Range(ret.changed_rules) \subseteq Listed
        /\ \A id \in Listed :
            /\ id \in Range(ret.new_rules) <=> id \notin DOMAIN pre.cv
            /\ id \in Range(ret.changed_rules) <=>
                    (id \in DOMAIN pre.cv /\ HashNow(id) # pre.cv[id].sha256)
            /\ id \notin Range(ret.new_rules) \cup Range(ret.changed_rules) <=>
                    (id \in DOMAIN pre.cv /\ HashNow(id) = pre.cv[id].sha256)

\* a call that found one rule new and one changed
C33_Witness ==
    /\ IsManageVersions
    /\ ret.new_rules = <<"b2">> /\ ret.changed_rules = <<"a1">>
    /\ call.rules = <<"b2", "a1">>
    /\ HashNow("a1") # pre.cv["a1"].sha256
    /\ "b2" \notin DOMAIN pre.cv

\* the rule of the item at place i of the mapping load_rules returned
Loaded(i) == RuleFiles[ld.ret.rules[i][2]]

\* C34: the mapping a load_rules returns, with error=True or error=False, has
\* no two rules with the same id and no two with the same name, has each rule
\* under its own id, holds rules of the files given only, and is in the order
\* of the rule names.
C34_UniqueAndSorted ==
    (ld.done /\ ld.ret.raised = "none") =>
        /\ \A i \in 1..Len(ld.ret.rules) :
            /\ ld.ret.rules[i][1] = Loaded(i).id
            /\ ld.ret.rules[i][2] \in Range(ld.file_lookup)
        /\ \A i, j \in 1..Len(ld.ret.rules) :
            i < j => /\ Loaded(i).id # Loaded(j).id
                     /\ Loaded(i).name # Loaded(j).name
                     /\ RuleNameRank(Loaded(i).name) < RuleNameRank(Loaded(j).name)

\* with error=False a mapping of two rules comes back, in another order than
\* the files were given, a third file with the name of one of them left out
C34_Witness ==
    /\ ld.done /\ ~ld.error
    /\ ld.file_lookup = <<"a.toml", "z.toml", "b.toml">>
    /\ ld.ret.raised = "none"
    /\ ld.ret.rules = <<<<"b2", "b.toml">>, <<"a1", "a.toml">>>>
    /\ Len(ld.ret.errors) = 1

\* the mapping the last call was passed as current_versions
IsGiven == IsManageVersions /\ call.current_versions.given
Given == call.current_versions.map

\* C35, as stated: a manage_versions that is passed a mapping as
\* current_versions classifies the rules against that mapping, whatever
\* version.lock.json holds, and with an empty mapping passed every rule is new
\* and gets version 1.
C35_GivenMappingUsed ==
    IsGiven =>
        /\ pre.cv = Given
        /\ \A id \in Listed :
            /\ id \in Range(ret.new_rules) <=> id \notin DOMAIN Given
            /\ id \notin DOMAIN Given => rules[id].version = 1

\* the place of a file in the file_lookup given; 0: not among the files
PlaceOf(file) ==
    IF file \in Range(ld.file_lookup) THEN FirstIndex(ld.file_lookup, file) ELSE 0

\* C36, as stated: the rule a duplicate query error of load_rules names as
\* existing comes before the rejected rule in file_lookup and has the query
\* key of the rejected rule, in every order of the files and with error=False
\* after other rules were rejected.
C36_ExistingHasSameKey ==
    ld.done =>
        \A k \in 1..Len(ld.ret.errors) :
            ld.ret.errors[k].what = "duplicate query" =>
                /\ PlaceOf(ld.ret.errors[k].existing) > 0
                /\ PlaceOf(ld.ret.errors[k].existing) < PlaceOf(ld.ret.errors[k].file)
                /\ RuleFiles[ld.ret.errors[k].existing].query =
                        RuleFiles[ld.ret.errors[k].file].query

====
